---- MODULE Spec2Model ----
(***************************************************************************)
(* Model of the knowledge-graph compiler, src/build_tools/compile.py.      *)
(*                                                                         *)
(* Text that the code inspects character by character (flag names, field   *)
(* names, resource names, command paths) is a sequence of one-character    *)
(* strings.  Text the code only stores and compares as a whole (command    *)
(* ids, descriptions, file paths) is a TLA+ string.                        *)
(***************************************************************************)
EXTENDS Integers, Sequences, FiniteSets, TLC

(***************************************************************************)
(* Bounds of the model.                                                    *)
(***************************************************************************)
MaxRuns == 3
MaxLlmRuns == 3
MaxWorkers == 2
MaxNormalizations == 2
MaxRelationships == 11

(***************************************************************************)
(* String helpers (Python str methods).                                    *)
(***************************************************************************)
Range(s) == {s[i] : i \in DOMAIN s}

StartsWith(s, p) == Len(s) >= Len(p) /\ SubSeq(s, 1, Len(p)) = p

EndsWith(s, p) == Len(s) >= Len(p) /\ SubSeq(s, Len(s) - Len(p) + 1, Len(s)) = p

DropFirst(s, n) == SubSeq(s, n + 1, Len(s))

DropLast(s, n) == SubSeq(s, 1, Len(s) - n)

IsSpace(c) == c \in {" ", "\t", "\n"}

RECURSIVE LStrip(_)
LStrip(s) == IF s # <<>> /\ IsSpace(Head(s)) THEN LStrip(Tail(s)) ELSE s

RECURSIVE RStrip(_)
RStrip(s) == IF s # <<>> /\ IsSpace(s[Len(s)]) THEN RStrip(DropLast(s, 1)) ELSE s

Strip(s) == RStrip(LStrip(s))

RECURSIVE StripDashes(_)
StripDashes(s) == IF StartsWith(s, <<"-">>) THEN StripDashes(Tail(s)) ELSE s

LowerChar(c) ==
    CASE c = "A" -> "a"
      [] c = "B" -> "b"
      [] c = "I" -> "i"
      [] c = "N" -> "n"
      [] OTHER -> c

Lower(s) == [i \in DOMAIN s |-> LowerChar(s[i])]

Replace(s, from, to) == [i \in DOMAIN s |-> IF s[i] = from THEN to ELSE s[i]]

\* str.split(): the maximal runs of non-whitespace characters, in order.
RECURSIVE SplitFrom(_, _, _)
SplitFrom(s, cur, acc) ==
    IF s = <<>>
    THEN IF cur = <<>> THEN acc ELSE Append(acc, cur)
    ELSE IF IsSpace(Head(s))
         THEN SplitFrom(Tail(s), <<>>, IF cur = <<>> THEN acc ELSE Append(acc, cur))
         ELSE SplitFrom(Tail(s), Append(cur, Head(s)), acc)

Split(s) == SplitFrom(s, <<>>, <<>>)

\* sep.join(parts)
RECURSIVE Join(_, _)
Join(parts, sep) ==
    IF parts = <<>> THEN <<>>
    ELSE IF Len(parts) = 1 THEN parts[1]
    ELSE parts[1] \o sep \o Join(Tail(parts), sep)

\* The rows of a table kept in rowid order that satisfy / do not satisfy a test.
RECURSIVE SeqWithout(_, _, _)
SeqWithout(rows, col, val) ==
    IF rows = <<>> THEN <<>>
    ELSE IF Head(rows)[col] = val
         THEN SeqWithout(Tail(rows), col, val)
         ELSE <<Head(rows)>> \o SeqWithout(Tail(rows), col, val)

RECURSIVE SeqWith(_, _, _)
SeqWith(rows, col, val) ==
    IF rows = <<>> THEN <<>>
    ELSE IF Head(rows)[col] = val
         THEN <<Head(rows)>> \o SeqWith(Tail(rows), col, val)
         ELSE SeqWith(Tail(rows), col, val)

(***************************************************************************)
(* Characters and words.                                                   *)
(***************************************************************************)
SP == <<" ">>
DOT == <<".">>
\* The words the compiler spells out.
W ==
    [view |-> <<"v", "i", "e", "w">>,
     do |-> <<"d", "o">>,
     summarize |-> <<"s", "u", "m", "m", "a", "r", "i", "z", "e">>,
     list |-> <<"l", "i", "s", "t">>,
     show |-> <<"s", "h", "o", "w">>,
     create |-> <<"c", "r", "e", "a", "t", "e">>,
     update |-> <<"u", "p", "d", "a", "t", "e">>,
     not |-> <<"n", "o", "t", "-">>,
     is |-> <<"i", "s", "-">>,
     min |-> <<"-", "m", "i", "n">>,
     max |-> <<"-", "m", "a", "x">>,
     before |-> <<"-", "b", "e", "f", "o", "r", "e">>,
     after |-> <<"-", "a", "f", "t", "e", "r">>,
     id |-> <<"-", "i", "d">>,
     ids |-> <<"-", "i", "d", "s">>,
     created_at |-> <<"c", "r", "e", "a", "t", "e", "d", "-", "a", "t">>,
     updated_at |-> <<"u", "p", "d", "a", "t", "e", "d", "-", "a", "t">>]

(***************************************************************************)
(* normalize_flag_name, match_flag_to_field, parse_flag_base_modifier.     *)
(***************************************************************************)
normalize_flag_name(flag_name) ==
    Replace(Lower(StripDashes(Strip(flag_name))), "_", "-")

\* (suffix, modifier) pairs in the order the code tries them.
RangeSuffixes ==
    << [suffix |-> W.min, modifier |-> "min"],
       [suffix |-> W.max, modifier |-> "max"],
       [suffix |-> W.before, modifier |-> "before"],
       [suffix |-> W.after, modifier |-> "after"] >>

Match(field, kind, modifier) ==
    [matched |-> TRUE, field |-> field, match_kind |-> kind, modifier |-> modifier]

\* (None, None, None)
NoMatch == [matched |-> FALSE, field |-> <<>>, match_kind |-> "none", modifier |-> "none"]

\* The tail of match_flag_to_field: the -id / -ids rule.
StripIdRule(normalized, fields) ==
    IF EndsWith(normalized, W.id) /\ DropLast(normalized, 3) \in fields
    THEN Match(DropLast(normalized, 3), "strip_id", "none")
    ELSE IF EndsWith(normalized, W.ids) /\ DropLast(normalized, 4) \in fields
    THEN Match(DropLast(normalized, 4), "strip_id", "none")
    ELSE NoMatch

\* The for loop over the range suffixes, from the i-th pair on.
RECURSIVE RangeRule(_, _, _)
RangeRule(normalized, fields, i) ==
    IF i > Len(RangeSuffixes) THEN StripIdRule(normalized, fields)
    ELSE LET suffix == RangeSuffixes[i].suffix
             modifier == RangeSuffixes[i].modifier
             base == DropLast(normalized, Len(suffix))
         IN  IF ~EndsWith(normalized, suffix) THEN RangeRule(normalized, fields, i + 1)
             ELSE IF base \in fields THEN Match(base, "range", modifier)
             ELSE IF EndsWith(base, W.id) /\ DropLast(base, 3) \in fields
                  THEN Match(DropLast(base, 3), "range_strip_id", modifier)
             ELSE IF EndsWith(base, W.ids) /\ DropLast(base, 4) \in fields
                  THEN Match(DropLast(base, 4), "range_strip_id", modifier)
             ELSE RangeRule(normalized, fields, i + 1)

\* match_flag_to_field with the range and id rules tried before the not- and
\* is- rules.
match_flag_to_field_range_first(flag_name, fields) ==
    LET normalized == normalize_flag_name(flag_name)
        ranged == RangeRule(normalized, fields, 1)
    IN  IF normalized \in fields THEN Match(normalized, "exact", "none")
        ELSE IF ranged.matched THEN ranged
        ELSE IF StartsWith(normalized, W.not) /\ DropFirst(normalized, 4) \in fields
        THEN Match(DropFirst(normalized, 4), "negation", "not")
        ELSE IF StartsWith(normalized, W.is) /\ DropFirst(normalized, 3) \in fields
        THEN Match(DropFirst(normalized, 3), "presence", "is")
        ELSE NoMatch

\* fields: the keys of the resource's field dict.
match_flag_to_field(flag_name, fields) ==
    LET normalized == normalize_flag_name(flag_name)
    IN  IF normalized \in fields THEN Match(normalized, "exact", "none")
        ELSE IF StartsWith(normalized, W.not) /\ DropFirst(normalized, 4) \in fields
        THEN Match(DropFirst(normalized, 4), "negation", "not")
        ELSE IF StartsWith(normalized, W.is) /\ DropFirst(normalized, 3) \in fields
        THEN Match(DropFirst(normalized, 3), "presence", "is")
        ELSE RangeRule(normalized, fields, 1)

RECURSIVE SuffixBase(_, _)
SuffixBase(base, i) ==
    IF i > Len(RangeSuffixes) THEN [base |-> base, modifier |-> "none"]
    ELSE IF EndsWith(base, RangeSuffixes[i].suffix)
         THEN [base |-> DropLast(base, Len(RangeSuffixes[i].suffix)),
               modifier |-> RangeSuffixes[i].modifier]
         ELSE SuffixBase(base, i + 1)

parse_flag_base_modifier(flag_name) ==
    LET base == normalize_flag_name(flag_name)
    IN  IF StartsWith(base, W.not) THEN [base |-> DropFirst(base, 4), modifier |-> "not"]
        ELSE IF StartsWith(base, W.is) THEN [base |-> DropFirst(base, 3), modifier |-> "is"]
        ELSE SuffixBase(base, 1)

(***************************************************************************)
(* pluralize_resource_name, candidate_resource_names, shortest_paths.      *)
(***************************************************************************)
Vowels == {"a", "e", "i", "o", "u"}

pluralize_resource_name(base) ==
    IF EndsWith(base, <<"s">>) THEN base
    ELSE IF EndsWith(base, <<"y">>) /\ Len(base) > 1 /\ base[Len(base) - 1] \notin Vowels
         THEN DropLast(base, 1) \o <<"i", "e", "s">>
         ELSE base \o <<"s">>

\* candidate_resource_names without the plural form.
candidate_resource_names_exact(base, resources) ==
    IF base \in resources THEN <<base>> ELSE <<>>

candidate_resource_names(base, resources) ==
    LET first == IF base \in resources THEN <<base>> ELSE <<>>
        plural == pluralize_resource_name(base)
    IN  IF plural \in resources /\ plural \notin Range(first)
        THEN Append(first, plural) ELSE first

\* build_relationship_graph: adjacency[resource] is the list of (field, target)
\* of the rows of resource_field_targets, in row order.
AdjacencyOf(targets, resource) == SeqWith(targets, "resource", resource)

\* The inner for loop without its "if target in paths: continue".
RECURSIVE ExpandEdges_revisits(_, _, _, _)
ExpandEdges_revisits(edges, path, paths, queue) ==
    IF edges = <<>> THEN [paths |-> paths, queue |-> queue]
    ELSE LET e == Head(edges)
         IN  ExpandEdges_revisits(Tail(edges), path,
                                  (e.target_resource :> Append(path, e.field)) @@ paths,
                                  Append(queue, e.target_resource))

\* The inner for loop of shortest_paths over the edges of `current`.
RECURSIVE ExpandEdges(_, _, _, _)
ExpandEdges(edges, path, paths, queue) ==
    IF edges = <<>> THEN [paths |-> paths, queue |-> queue]
    ELSE LET e == Head(edges)
         IN  IF e.target_resource \in DOMAIN paths
             THEN ExpandEdges(Tail(edges), path, paths, queue)
             ELSE ExpandEdges(Tail(edges), path,
                              (e.target_resource :> Append(path, e.field)) @@ paths,
                              Append(queue, e.target_resource))

RECURSIVE Bfs(_, _, _, _)
Bfs(targets, max_hops, paths, queue) ==
    IF queue = <<>> THEN paths
    ELSE LET current == Head(queue)
             path == paths[current]
         IN  IF Len(path) >= max_hops
             THEN Bfs(targets, max_hops, paths, Tail(queue))
             ELSE LET r == ExpandEdges(AdjacencyOf(targets, current), path, paths, Tail(queue))
                  IN  Bfs(targets, max_hops, r.paths, r.queue)

shortest_paths(targets, start, max_hops) ==
    Bfs(targets, max_hops, (start :> <<>>), <<start>>)

(***************************************************************************)
(* Inputs: the resource maps, summary maps, repository files, artifact     *)
(* files and resolver answers a compile run is given.                      *)
(***************************************************************************)
r_as == <<"a", "s">>
r_bs == <<"b", "s">>
r_cs == <<"c", "s">>
f_name == <<"n", "a", "m", "e">>
f_active == <<"a", "c", "t", "i", "v", "e">>
f_owns == <<"o", "w", "n", "s">>
f_has == <<"h", "a", "s">>
f_bogus == <<"b", "o", "g", "u", "s">>

\* resource_map.json with three resources, as --owns--> bs --has--> cs.
RM_full ==
    [resources |->
        << [name |-> r_as, label_fields |-> <<f_name>>, attributes |-> <<f_name>>],
           [name |-> r_bs, label_fields |-> <<>>, attributes |-> <<f_active>>],
           [name |-> r_cs, label_fields |-> <<>>, attributes |-> <<>>] >>,
     relationships |->
        << [resource |-> r_as, rel_name |-> f_owns, resources |-> <<r_bs>>],
           [resource |-> r_bs, rel_name |-> f_has, resources |-> <<r_cs>>] >>]

\* resource_map.json that names only resource as; its relationship still
\* points at bs.
RM_part ==
    [resources |->
        << [name |-> r_as, label_fields |-> <<f_name>>, attributes |-> <<f_name>>] >>,
     relationships |->
        << [resource |-> r_as, rel_name |-> f_owns, resources |-> <<r_bs>>] >>]

\* summary_map.json: absent ({}), or bs summarizing as.
SM_none == [summaries |-> <<>>]

SM_bs ==
    [summaries |->
        << [name |-> r_bs, primary_resources |-> <<r_as>>,
            conditions |-> << [filter |-> "f", primary_resources |-> <<r_as>>] >>,
            sources |-> << [repo_name |-> "server", file_path |-> "app/models/bs_summary.rb"],
                           [repo_name |-> "client", file_path |-> "bs.ts"] >>] >>]

\* The (resource map, summary map) pairs of the repository.
Projects == {<<RM_full, SM_bs>>, <<RM_part, SM_none>>}

\* A file of the server repository as build_summary_dimensions_metrics sees
\* it: whether its path ends in ".rb", whether the path contains "/models/"
\* and "summary", whether it can be read, and the names the regular
\* expressions extract from it.
ServerFile(path) ==
    IF path = "app/models/bs_summary.rb"
    THEN [ruby |-> TRUE, model_summary |-> TRUE, readable |-> TRUE,
          dimensions |-> {"day"}, metrics |-> {"total"}]
    ELSE [ruby |-> FALSE, model_summary |-> FALSE, readable |-> FALSE,
          dimensions |-> {}, metrics |-> {}]

\* What endpoint_pattern.search finds in a CLI source file: the resource of
\* the first "/v1/<resource>" literal, if the file is readable and has one.
CliFile(path) ==
    IF path = "cmd/summarize_b.go" THEN [readable |-> TRUE, found |-> TRUE, resource |-> r_bs]
    ELSE IF path = "cmd/root.go" THEN [readable |-> TRUE, found |-> FALSE, resource |-> <<>>]
    ELSE [readable |-> FALSE, found |-> FALSE, resource |-> <<>>]

Flag(name, description) == [name |-> name, description |-> description]

fl_name == <<"-", "-", "n", "a", "m", "e">>
fl_owns_id == <<"-", "-", "o", "w", "n", "s", "-", "i", "d">>
fl_q == <<"-", "-", "q">>

\* Artifact files.  ok = FALSE: the file is not JSON or fails validation.
A_list ==
    [file |-> "view_as_list.json", ok |-> TRUE, id |-> "c1",
     full_path |-> W.view \o SP \o r_as \o SP \o W.list,
     description |-> "list as",
     flags |-> <<Flag(fl_name, "by name"), Flag(fl_owns_id, "by owner"), Flag(fl_q, "query"),
                 Flag(fl_name, "by name, again"), Flag(fl_q, "search")>>,
     sources |-> << [repo_name |-> "cli", file_path |-> "cmd/root.go"] >>]

\* Another version of command c1.
A_list2 ==
    [file |-> "view_as_list_v2.json", ok |-> TRUE, id |-> "c1",
     full_path |-> W.view \o SP \o r_as \o SP \o W.list,
     description |-> "list as, v2",
     flags |-> <<Flag(fl_q, "query")>>,
     sources |-> <<>>]

A_create ==
    [file |-> "do_as_create.json", ok |-> TRUE, id |-> "c2",
     full_path |-> W.do \o SP \o r_as \o SP \o W.create,
     description |-> "create as",
     flags |-> <<Flag(fl_q, "quiet")>>,
     sources |-> <<>>]

A_summarize ==
    [file |-> "summarize_b_create.json", ok |-> TRUE, id |-> "c3",
     full_path |-> W.summarize \o SP \o <<"b">> \o SP \o W.create, description |-> "summarize b",
     flags |-> <<>>,
     sources |-> << [repo_name |-> "cli", file_path |-> "cmd/root.go"],
                    [repo_name |-> "cli", file_path |-> "cmd/summarize_b.go"] >>]

A_blank ==
    [file |-> "blank.json", ok |-> TRUE, id |-> "c4",
     full_path |-> <<" ">>,
     description |-> "no path", flags |-> <<Flag(fl_q, "query")>>, sources |-> <<>>]

A_bad ==
    [file |-> "bad.json", ok |-> FALSE, id |-> "", full_path |-> <<>>,
     description |-> "", flags |-> <<>>, sources |-> <<>>]

\* The contents of the artifacts directory a run may find.
ArtifactDirs ==
    { {A_list, A_create},
      {A_list2, A_bad},
      {A_summarize, A_blank} }

\* JSON values the resolver may give for a flag.
JNull == [t |-> "null", v |-> <<>>]
JStr(x) == [t |-> "str", v |-> x]
JList == [t |-> "list", v |-> <<>>]
JsonValues == {JNull, JStr(W.updated_at), JStr(f_bogus), JList}

\* The dicts run_llm_flag_mapping may return for a group of flags: a JSON
\* object over (some of) the flags of the group.
ResolverDicts(flag_names) ==
    UNION {[dom -> JsonValues] : dom \in SUBSET flag_names}

(***************************************************************************)
(* The Store.  A table is the sequence of its rows in rowid (insertion)    *)
(* order, which is the order a SELECT without ORDER BY scans them in.      *)
(* A NULL text column is the empty sequence or the string "none".          *)
(***************************************************************************)
EmptyDb ==
    [commands |-> <<>>, flags |-> <<>>, sources |-> <<>>,
     resources |-> <<>>, resource_fields |-> <<>>, resource_field_targets |-> <<>>,
     summary_resource_targets |-> <<>>, summary_sources |-> <<>>,
     summary_dimensions |-> <<>>, summary_metrics |-> <<>>,
     command_resource_links |-> <<>>, command_field_links |-> <<>>,
     command_filter_paths |-> <<>>,
     command_summary_dimensions |-> <<>>, command_summary_metrics |-> <<>>]

\* The concatenation of F(s[1]), F(s[2]), ...
FlatMap(s, F(_)) ==
    LET f[i \in 0..Len(s)] == IF i = 0 THEN <<>> ELSE f[i - 1] \o F(s[i])
    IN  f[Len(s)]

\* The subsequence of the elements of s that satisfy P.
Filter(s, P(_)) == FlatMap(s, LAMBDA x : IF P(x) THEN <<x>> ELSE <<>>)

PkEq(r1, r2, pk) == \A c \in pk : r1[c] = r2[c]

\* INSERT OR IGNORE of one row under primary key pk.
InsertOrIgnore(table, row, pk) ==
    IF \E i \in DOMAIN table : PkEq(table[i], row, pk) THEN table ELSE Append(table, row)

\* INSERT OR IGNORE of rows, one statement after the other.
RECURSIVE InsertAll(_, _, _)
InsertAll(table, rows, pk) ==
    IF rows = <<>> THEN table
    ELSE InsertAll(InsertOrIgnore(table, Head(rows), pk), Tail(rows), pk)

\* The primary keys init_db declares.
PK ==
    [resource_fields |-> {"resource", "name"},
     resource_field_targets |-> {"resource", "field", "target_resource"},
     summary_resource_targets |-> {"summary_resource", "primary_resource", "condition"},
     summary_dimensions |-> {"summary_resource", "name", "kind"},
     summary_metrics |-> {"summary_resource", "name"},
     command_resource_links |-> {"command_id", "resource", "verb", "command_kind", "source"},
     command_field_links |-> {"command_id", "resource", "field", "relation", "flag_name"},
     command_filter_paths |-> {"command_id", "flag_name", "path"},
     command_summary |-> {"command_id", "summary_resource", "name"}]

(***************************************************************************)
(* upsert_artifact.  Of a flag's columns the model keeps name and          *)
(* description, the two the compiler reads back; the others are stored     *)
(* by the same INSERT.                                                     *)
(***************************************************************************)
CommandRow(a) == [id |-> a.id, full_path |-> a.full_path, description |-> a.description]

FlagRows(a) ==
    [i \in DOMAIN a.flags |->
        [command_id |-> a.id, name |-> a.flags[i].name,
         description |-> a.flags[i].description]]

SourceRows(a) ==
    [i \in DOMAIN a.sources |->
        [command_id |-> a.id, repo_name |-> a.sources[i].repo_name,
         file_path |-> a.sources[i].file_path]]

\* upsert_artifact without its DELETE statements: the rows of the earlier
\* upsert stay.
upsert_artifact_merges(db, a) ==
    [db EXCEPT
        !.commands = Append(SeqWithout(db.commands, "id", a.id), CommandRow(a)),
        !.flags = db.flags \o FlagRows(a),
        !.sources = db.sources \o SourceRows(a)]

\* upsert_artifact with DELETE statements that lack their WHERE clause.
upsert_artifact_truncates(db, a) ==
    [db EXCEPT
        !.commands = Append(SeqWithout(db.commands, "id", a.id), CommandRow(a)),
        !.flags = FlagRows(a),
        !.sources = SourceRows(a)]

upsert_artifact(db, a) ==
    [db EXCEPT
        \* INSERT OR REPLACE: the row with this id is deleted, the new one added
        !.commands = Append(SeqWithout(db.commands, "id", a.id), CommandRow(a)),
        !.flags = SeqWithout(db.flags, "command_id", a.id) \o FlagRows(a),
        !.sources = SeqWithout(db.sources, "command_id", a.id) \o SourceRows(a)]

\* json.loads + validate_artifact succeed on the file.
validate_artifact(file) == file.ok

(***************************************************************************)
(* upsert_resource_map.                                                    *)
(***************************************************************************)
ResourceRow(r) == [name |-> r.name, label_fields |-> r.label_fields]

FieldRow(resource, name, kind, is_label) ==
    [resource |-> resource, name |-> name, kind |-> kind, is_label |-> is_label]

\* The resource_fields rows the first loop inserts for one resource.
AttributeRows(r) ==
    [i \in DOMAIN r.attributes |->
        FieldRow(r.name, r.attributes[i], "attribute", r.attributes[i] \in Range(r.label_fields))]
    \o << FieldRow(r.name, W.created_at, "attribute", FALSE),
          FieldRow(r.name, W.updated_at, "attribute", FALSE) >>

RelationshipRow(rel) == << FieldRow(rel.resource, rel.rel_name, "relationship", FALSE) >>

TargetRows(rel) ==
    [i \in DOMAIN rel.resources |->
        [resource |-> rel.resource, field |-> rel.rel_name,
         target_resource |-> rel.resources[i]]]

upsert_resource_map(db, resource_map) ==
    [db EXCEPT
        !.resources = [i \in DOMAIN resource_map.resources |->
                          ResourceRow(resource_map.resources[i])],
        !.resource_fields =
            InsertAll(<<>>,
                      FlatMap(resource_map.resources, AttributeRows)
                          \o FlatMap(resource_map.relationships, RelationshipRow),
                      PK.resource_fields),
        !.resource_field_targets =
            InsertAll(<<>>, FlatMap(resource_map.relationships, TargetRows),
                      PK.resource_field_targets)]

(***************************************************************************)
(* upsert_summary_map.                                                     *)
(***************************************************************************)
SummaryTargetRow(summary_resource, primary, condition) ==
    [summary_resource |-> summary_resource, primary_resource |-> primary,
     condition |-> condition]

SummaryTargetRows(sm) ==
    [i \in DOMAIN sm.primary_resources |->
        SummaryTargetRow(sm.name, sm.primary_resources[i], "none")]
    \o FlatMap(sm.conditions,
               LAMBDA c : [i \in DOMAIN c.primary_resources |->
                              SummaryTargetRow(sm.name, c.primary_resources[i], c.filter)])

SummarySourceRows(sm) ==
    [i \in DOMAIN sm.sources |->
        [summary_resource |-> sm.name, repo_name |-> sm.sources[i].repo_name,
         file_path |-> sm.sources[i].file_path]]

upsert_summary_map(db, summary_map) ==
    [db EXCEPT
        !.summary_resource_targets =
            InsertAll(<<>>, FlatMap(summary_map.summaries, SummaryTargetRows),
                      PK.summary_resource_targets),
        !.summary_sources = FlatMap(summary_map.summaries, SummarySourceRows)]

(***************************************************************************)
(* build_command_resource_links.                                           *)
(***************************************************************************)
ResourceNames(db) == {db.resources[i].name : i \in DOMAIN db.resources}

ResourceLinkRow(command_id, resource, verb, kind, source, evidence) ==
    [command_id |-> command_id, resource |-> resource, verb |-> verb,
     command_kind |-> kind, source |-> source, evidence |-> evidence]

\* cli_sources[command_id]: the file paths of the command's 'cli' sources.
CliSources(db, command_id) ==
    Filter(db.sources, LAMBDA r : r.command_id = command_id /\ r.repo_name = "cli")

\* The files of the list in which the endpoint pattern is found.
EndpointHits(files) ==
    Filter(files, LAMBDA r : CliFile(r.file_path).readable /\ CliFile(r.file_path).found)

\* The summarize branch: the endpoint of the first source file that has one,
\* else the alias with an "s" appended when that names a resource.
SummarizeLink(db, command, tokens) ==
    LET hits == EndpointHits(CliSources(db, command.id))
        alias == Join(SubSeq(tokens, 2, Len(tokens) - 1), SP)
        candidate == alias \o <<"s">>
        resource == IF hits # <<>> THEN CliFile(hits[1].file_path).resource
                    ELSE IF candidate \in ResourceNames(db) THEN candidate ELSE <<>>
        evidence == IF hits # <<>> THEN hits[1].file_path ELSE "alias_plural"
    IN  IF resource # <<>> /\ resource \in ResourceNames(db)
        THEN <<ResourceLinkRow(command.id, resource, W.create, "summarize",
                               "cli_endpoint", evidence)>>
        ELSE <<>>

\* The loop body with the view branch lacking its "continue" and the do
\* branch its test of the first token: a view command is linked twice.
ClassifyCommand_fallthrough(db, command) ==
    LET tokens == Split(command.full_path)
        n == Len(tokens)
        resource == Join(SubSeq(tokens, 2, n - 1), SP)
    IN  IF tokens = <<>> \/ n < 3 \/ resource \notin ResourceNames(db) THEN <<>>
        ELSE (IF tokens[1] = W.view /\ tokens[n] \in {W.list, W.show}
              THEN <<ResourceLinkRow(command.id, resource, tokens[n], "view", "full_path", "none")>>
              ELSE <<>>)
             \o <<ResourceLinkRow(command.id, resource, tokens[n], "do", "full_path", "none")>>

\* The rows (none or one) the loop body inserts for one command.
ClassifyCommand(db, command) ==
    LET tokens == Split(command.full_path)
        n == Len(tokens)
        resource == Join(SubSeq(tokens, 2, n - 1), SP)
    IN  IF tokens = <<>> THEN <<>>
        ELSE IF tokens[1] = W.view /\ n >= 3 /\ tokens[n] \in {W.list, W.show}
        THEN IF resource \in ResourceNames(db)
             THEN <<ResourceLinkRow(command.id, resource, tokens[n], "view", "full_path", "none")>>
             ELSE <<>>
        ELSE IF tokens[1] = W.do /\ n >= 3
        THEN IF resource \in ResourceNames(db)
             THEN <<ResourceLinkRow(command.id, resource, tokens[n], "do", "full_path", "none")>>
             ELSE <<>>
        ELSE IF tokens[1] = W.summarize /\ n >= 3 /\ tokens[n] = W.create
        THEN SummarizeLink(db, command, tokens)
        ELSE <<>>

build_command_resource_links(db) ==
    [db EXCEPT !.command_resource_links =
        InsertAll(<<>>, FlatMap(db.commands, LAMBDA c : ClassifyCommand(db, c)),
                  PK.command_resource_links)]

(***************************************************************************)
(* build_summary_dimensions_metrics, build_command_summary_links.          *)
(***************************************************************************)
\* The elements of a finite set of names as a list (the code sorts them; the
\* rows are the same in any order, the names being distinct).
RECURSIVE SetToSeq(_)
SetToSeq(S) ==
    IF S = {} THEN <<>> ELSE LET x == CHOOSE x \in S : TRUE IN <<x>> \o SetToSeq(S \ {x})

\* The keys of a dict filled in row order: each value once, at its first place.
RECURSIVE Distinct(_)
Distinct(s) ==
    IF s = <<>> THEN <<>>
    ELSE LET init == Distinct(DropLast(s, 1))
         IN  IF s[Len(s)] \in Range(init) THEN init ELSE Append(init, s[Len(s)])

\* summary_files[summary_resource]: its server .rb files, in row order.
SummaryFiles(db, summary_resource) ==
    Filter(db.summary_sources,
           LAMBDA r : /\ r.summary_resource = summary_resource
                      /\ r.repo_name = "server"
                      /\ ServerFile(r.file_path).ruby)

ServerPath(files) ==
    LET preferred == Filter(files, LAMBDA r : ServerFile(r.file_path).model_summary)
    IN  IF preferred # <<>> THEN preferred[1].file_path ELSE files[1].file_path

SummaryResourcesWithFiles(db) ==
    Distinct([i \in DOMAIN db.summary_sources |-> db.summary_sources[i].summary_resource])

DimensionRows(db, summary_resource) ==
    LET files == SummaryFiles(db, summary_resource)
    IN  IF files = <<>> \/ ~ServerFile(ServerPath(files)).readable THEN <<>>
        ELSE LET names == SetToSeq(ServerFile(ServerPath(files)).dimensions)
             IN  [i \in DOMAIN names |->
                     [summary_resource |-> summary_resource, name |-> names[i],
                      kind |-> "group_by", source_path |-> ServerPath(files)]]

MetricRows(db, summary_resource) ==
    LET files == SummaryFiles(db, summary_resource)
    IN  IF files = <<>> \/ ~ServerFile(ServerPath(files)).readable THEN <<>>
        ELSE LET names == SetToSeq(ServerFile(ServerPath(files)).metrics)
             IN  [i \in DOMAIN names |->
                     [summary_resource |-> summary_resource, name |-> names[i],
                      source_path |-> ServerPath(files)]]

build_summary_dimensions_metrics(db) ==
    [db EXCEPT
        !.summary_dimensions =
            InsertAll(<<>>, FlatMap(SummaryResourcesWithFiles(db),
                                    LAMBDA r : DimensionRows(db, r)),
                      PK.summary_dimensions),
        !.summary_metrics =
            InsertAll(<<>>, FlatMap(SummaryResourcesWithFiles(db),
                                    LAMBDA r : MetricRows(db, r)),
                      PK.summary_metrics)]

CommandSummaryRows(link, rows) ==
    FlatMap(rows, LAMBDA d :
        IF d.summary_resource = link.resource
        THEN <<[command_id |-> link.command_id, summary_resource |-> link.resource,
                name |-> d.name, source_path |-> d.source_path]>>
        ELSE <<>>)

SummarizeLinks(db) == Filter(db.command_resource_links, LAMBDA l : l.command_kind = "summarize")

build_command_summary_links(db) ==
    [db EXCEPT
        !.command_summary_dimensions =
            InsertAll(<<>>, FlatMap(SummarizeLinks(db),
                                    LAMBDA l : CommandSummaryRows(l, db.summary_dimensions)),
                      PK.command_summary),
        !.command_summary_metrics =
            InsertAll(<<>>, FlatMap(SummarizeLinks(db),
                                    LAMBDA l : CommandSummaryRows(l, db.summary_metrics)),
                      PK.command_summary)]

(***************************************************************************)
(* build_command_filter_paths.                                             *)
(***************************************************************************)
max_hops == 3

Min(S) == CHOOSE x \in S : \A y \in S : x <= y

FilterPathRow(uf, path, target, target_field, hop_count, match_kind, modifier) ==
    [command_id |-> uf.command_id, resource |-> uf.resource, flag_name |-> uf.flag_name,
     path |-> path, target_resource |-> target, target_field |-> target_field,
     hop_count |-> hop_count, match_kind |-> match_kind, modifier |-> modifier,
     source |-> "deterministic"]

\* The SELECT of unmapped_flags: the flags of the commands linked as
\* view/list that have no command_field_links row.
UnmappedFlags(db) ==
    FlatMap(db.flags, LAMBDA f :
        FlatMap(db.command_resource_links, LAMBDA crl :
            IF /\ crl.command_id = f.command_id
               /\ crl.command_kind = "view" /\ crl.verb = W.list
               /\ ~\E i \in DOMAIN db.command_field_links :
                     /\ db.command_field_links[i].command_id = f.command_id
                     /\ db.command_field_links[i].flag_name = f.name
            THEN <<[command_id |-> f.command_id, flag_name |-> f.name,
                    resource |-> crl.resource]>>
            ELSE <<>>))

\* base with a trailing -id or -ids removed.
FilterBase(flag_name) ==
    LET base == parse_flag_base_modifier(flag_name).base
    IN  IF EndsWith(base, W.id) THEN DropLast(base, 3)
        ELSE IF EndsWith(base, W.ids) THEN DropLast(base, 4)
        ELSE base

\* Step 1: base names a relationship of the resource.
RelRows(uf, base, modifier, adjacency) ==
    FlatMap(adjacency, LAMBDA e :
        IF e.field = base
        THEN <<FilterPathRow(uf, e.field, e.target_resource, <<>>, 1, "rel", modifier)>>
        ELSE <<>>)

\* Step 2: base or its plural names a reachable resource.
ResourceRows(uf, modifier, candidates, paths) ==
    LET hops == {Len(paths[c]) : c \in {x \in Range(candidates) :
                                          x \in DOMAIN paths /\ x # uf.resource}}
    IN  IF hops = {} THEN <<>>
        ELSE FlatMap(candidates, LAMBDA c :
                IF c \in DOMAIN paths /\ Len(paths[c]) = Min(hops)
                THEN <<FilterPathRow(uf, Join(paths[c], DOT), c, <<>>, Min(hops),
                                     "rel_resource", modifier)>>
                ELSE <<>>)

\* attribute_map: the resources that have attribute rows, in row order.
AttributeResources(db) ==
    Distinct(FlatMap(db.resource_fields,
                     LAMBDA r : IF r.kind = "attribute" THEN <<r.resource>> ELSE <<>>))

HasAttribute(db, resource, name) ==
    \E i \in DOMAIN db.resource_fields :
        /\ db.resource_fields[i].resource = resource
        /\ db.resource_fields[i].kind = "attribute"
        /\ db.resource_fields[i].name = name

\* Step 3: base names an attribute of a reachable resource.
AttrRows(db, uf, base, modifier, paths) ==
    LET attr_matches == Filter(AttributeResources(db),
                               LAMBDA t : HasAttribute(db, t, base) /\ t \in DOMAIN paths)
        PathParts(t) == IF t = uf.resource THEN <<>> ELSE paths[t]
    IN  IF attr_matches = <<>> THEN <<>>
        ELSE LET min_hop == Min({Len(PathParts(t)) : t \in Range(attr_matches)})
             IN  FlatMap(attr_matches, LAMBDA t :
                    IF Len(PathParts(t)) # min_hop THEN <<>>
                    ELSE <<FilterPathRow(uf,
                               IF PathParts(t) # <<>>
                               THEN Join(Append(PathParts(t), base), DOT) ELSE base,
                               t, base, min_hop, "rel_attr", modifier)>>)

\* The rows the loop body inserts for one unmapped flag.
FilterPathRows(db, uf) ==
    LET base == FilterBase(uf.flag_name)
        modifier == parse_flag_base_modifier(uf.flag_name).modifier
        adjacency == AdjacencyOf(db.resource_field_targets, uf.resource)
        paths == shortest_paths(db.resource_field_targets, uf.resource, max_hops)
        byResource == ResourceRows(uf, modifier,
                                   candidate_resource_names(base, ResourceNames(db)), paths)
    IN  IF \E i \in DOMAIN adjacency : adjacency[i].field = base
        THEN RelRows(uf, base, modifier, adjacency)
        ELSE IF byResource # <<>> THEN byResource
        ELSE AttrRows(db, uf, base, modifier, paths)

build_command_filter_paths(db) ==
    [db EXCEPT !.command_filter_paths =
        InsertAll(<<>>, FlatMap(UnmappedFlags(db), LAMBDA uf : FilterPathRows(db, uf)),
                  PK.command_filter_paths)]

(***************************************************************************)
(* The views init_db creates over the Store: resource_graph_edges,         *)
(* resource_filter_path_neighbors, resource_feature_links,                 *)
(* resource_feature_similarity, resource_neighbor_components and           *)
(* resource_neighbor_scores.  A view with UNION ALL is a sequence of rows.  *)
(* The detail column of resource_neighbor_components, which               *)
(* resource_neighbor_scores does not read, is left out.                     *)
(***************************************************************************)
Alphabet ==
    <<"a", "b", "c", "d", "e", "f", "g", "h", "i", "j", "k", "l", "m",
      "n", "o", "p", "q", "r", "s", "t", "u", "v", "w", "x", "y", "z">>

CharRank(c) == CHOOSE i \in DOMAIN Alphabet : Alphabet[i] = c

\* a < b of SQLite on two names in lower-case letters.
RECURSIVE StrLess(_, _)
StrLess(a, b) ==
    IF b = <<>> THEN FALSE
    ELSE IF a = <<>> THEN TRUE
    ELSE IF Head(a) = Head(b) THEN StrLess(Tail(a), Tail(b))
    ELSE CharRank(Head(a)) < CharRank(Head(b))

RECURSIVE Sum(_)
Sum(s) == IF s = <<>> THEN 0 ELSE Head(s) + Sum(Tail(s))

resource_graph_edges(db) ==
    [i \in DOMAIN db.resource_field_targets |->
        [source_resource |-> db.resource_field_targets[i].resource,
         target_resource |-> db.resource_field_targets[i].target_resource,
         edge_kind |-> "relationship"]]
    \o [i \in DOMAIN db.summary_resource_targets |->
        [source_resource |-> db.summary_resource_targets[i].summary_resource,
         target_resource |-> db.summary_resource_targets[i].primary_resource,
         edge_kind |-> "summary"]]

\* The GROUP BY columns of a command_filter_paths row.
FilterPathGroup(p) ==
    [source_resource |-> p.resource, target_resource |-> p.target_resource, path |-> p.path,
     target_field |-> p.target_field, hop_count |-> p.hop_count,
     match_kind |-> p.match_kind, modifier |-> p.modifier]

\* One row per group, with COUNT(DISTINCT flag_name).
resource_filter_path_neighbors(db) ==
    LET groups == SetToSeq({FilterPathGroup(p) : p \in Range(db.command_filter_paths)})
    IN  [i \in DOMAIN groups |->
            [group |-> groups[i],
             flag_count |-> Cardinality({p.flag_name : p \in
                 {q \in Range(db.command_filter_paths) : FilterPathGroup(q) = groups[i]}})]]

FeatureKinds == {"command_field", "summary_dimension", "summary_metric", "filter_target"}

\* distinct_features of one feature kind: (resource, feature_name,
\* COALESCE(feature_detail, '')).
resource_feature_links(db, feature_kind) ==
    CASE feature_kind = "command_field" ->
            {<<l.resource, l.field, l.relation>> : l \in Range(db.command_field_links)}
      [] feature_kind = "summary_dimension" ->
            {<<d.summary_resource, d.name, d.kind>> : d \in Range(db.summary_dimensions)}
      [] feature_kind = "summary_metric" ->
            {<<m.summary_resource, m.name, "">> : m \in Range(db.summary_metrics)}
      [] feature_kind = "filter_target" ->
            {<<p.resource, p.target_resource, p.path>> : p \in Range(db.command_filter_paths)}

\* The number of rows of the join for one (a.resource, b.resource, feature_kind).
SharedFeatures(db, a, b, feature_kind) ==
    LET links == resource_feature_links(db, feature_kind)
    IN  Cardinality({<<x[2], x[3]>> : x \in {y \in links : y[1] = a}}
                    \cap {<<x[2], x[3]>> : x \in {y \in links : y[1] = b}})

resource_feature_similarity(db) ==
    LET resources == UNION {{x[1] : x \in resource_feature_links(db, k)} : k \in FeatureKinds}
    IN  SetToSeq({[source_resource |-> a, target_resource |-> b, feature_kind |-> k,
                   shared_features |-> SharedFeatures(db, a, b, k)] :
                     <<a, b, k>> \in {x \in resources \X resources \X FeatureKinds :
                                        /\ StrLess(x[1], x[2])
                                        /\ SharedFeatures(db, x[1], x[2], x[3]) > 0}})

Component(source, target, component_kind, component_count) ==
    [source_resource |-> source, target_resource |-> target,
     component_kind |-> component_kind, component_count |-> component_count]

resource_neighbor_components(db) ==
    LET edges == resource_graph_edges(db)
        paths == resource_filter_path_neighbors(db)
        shared == resource_feature_similarity(db)
        Kind(feature_kind) ==
            CASE feature_kind = "command_field" -> "shared_command_field"
              [] feature_kind = "summary_dimension" -> "shared_summary_dimension"
              [] feature_kind = "summary_metric" -> "shared_summary_metric"
              [] feature_kind = "filter_target" -> "shared_filter_target"
    IN  [i \in DOMAIN edges |->
            Component(edges[i].source_resource, edges[i].target_resource,
                      IF edges[i].edge_kind = "summary" THEN "summary" ELSE "relationship", 1)]
        \o [i \in DOMAIN paths |->
            Component(paths[i].group.source_resource, paths[i].group.target_resource,
                      "filter_path", paths[i].flag_count)]
        \o [i \in DOMAIN shared |->
            Component(shared[i].source_resource, shared[i].target_resource,
                      Kind(shared[i].feature_kind), shared[i].shared_features)]
        \o [i \in DOMAIN shared |->
            Component(shared[i].target_resource, shared[i].source_resource,
                      Kind(shared[i].feature_kind), shared[i].shared_features)]

\* The weights of resource_neighbor_scores, in tenths.
weights ==
    [relationship |-> 30, summary |-> 25, filter_path |-> 15, shared_command_field |-> 10,
     shared_summary_dimension |-> 8, shared_summary_metric |-> 8, shared_filter_target |-> 5]

\* CASE WHEN component_count > 10 THEN 10 ELSE component_count END
count_cap == 10

capped_count(component_count) ==
    IF component_count > count_cap THEN count_cap ELSE component_count

\* The rows of the view, one per (source_resource, target_resource); score
\* in tenths.
resource_neighbor_scores(db) ==
    LET components == resource_neighbor_components(db)
        Of(source, target, kinds) ==
            Filter(components, LAMBDA c : /\ c.source_resource = source
                                          /\ c.target_resource = target
                                          /\ c.component_kind \in kinds)
        Count(source, target, kind) ==
            Sum([i \in DOMAIN Of(source, target, {kind}) |->
                    capped_count(Of(source, target, {kind})[i].component_count)])
        Score(source, target) ==
            Sum([i \in DOMAIN Of(source, target, DOMAIN weights) |->
                    LET c == Of(source, target, DOMAIN weights)[i]
                    IN  capped_count(c.component_count) * weights[c.component_kind]])
    IN  {[source_resource |-> x[1], target_resource |-> x[2],
          score |-> Score(x[1], x[2]),
          evidence_count |-> Sum([k \in 1..Len(SetToSeq(DOMAIN weights)) |->
                                    Count(x[1], x[2], SetToSeq(DOMAIN weights)[k])]),
          relationship_count |-> Count(x[1], x[2], "relationship"),
          summary_count |-> Count(x[1], x[2], "summary"),
          filter_path_count |-> Count(x[1], x[2], "filter_path"),
          shared_command_field_count |-> Count(x[1], x[2], "shared_command_field"),
          shared_summary_dimension_count |-> Count(x[1], x[2], "shared_summary_dimension"),
          shared_summary_metric_count |-> Count(x[1], x[2], "shared_summary_metric"),
          shared_filter_target_count |-> Count(x[1], x[2], "shared_filter_target")] :
            x \in {<<components[i].source_resource, components[i].target_resource>> :
                      i \in DOMAIN components}}

(***************************************************************************)
(* build_command_field_links: the deterministic pass.                      *)
(***************************************************************************)
\* resource_fields[resource]: the names of the fields of a resource.
FieldNames(db, resource) ==
    {db.resource_fields[i].name :
        i \in {j \in DOMAIN db.resource_fields : db.resource_fields[j].resource = resource}}

FieldKind(db, resource, name) ==
    LET i == CHOOSE j \in DOMAIN db.resource_fields :
                 /\ db.resource_fields[j].resource = resource
                 /\ db.resource_fields[j].name = name
    IN  db.resource_fields[i].kind

\* The relation with every verb of a do command taken as a write.
RelationOf_any_do(command_kind, verb) ==
    IF command_kind = "view"
    THEN IF verb = W.list THEN "filters_by" ELSE "selects_field"
    ELSE IF command_kind \in {"do", "summarize"} THEN
         IF command_kind = "do" THEN "sets_field" ELSE "summary_param"
    ELSE "none"

\* The relation of a classified command; "none" when it has none.
RelationOf(command_kind, verb) ==
    IF command_kind = "view"
    THEN IF verb = W.list THEN "filters_by" ELSE "selects_field"
    ELSE IF command_kind = "do"
    THEN IF verb \in {W.create, W.update} THEN "sets_field" ELSE "none"
    ELSE IF command_kind = "summarize" THEN "summary_param"
    ELSE "none"

FieldLinkRow(command_id, resource, field, field_kind, relation, flag_name, match_kind, modifier) ==
    [command_id |-> command_id, resource |-> resource, field |-> field,
     field_kind |-> field_kind, relation |-> relation, flag_name |-> flag_name,
     match_kind |-> match_kind, modifier |-> modifier]

\* One record per (command link, flag of the command) the nested loops
\* visit, in their order, with the result of match_flag_to_field.
FlagMatches(db) ==
    FlatMap(db.command_resource_links, LAMBDA link :
        IF \/ RelationOf(link.command_kind, link.verb) = "none"
           \/ FieldNames(db, link.resource) = {}
        THEN <<>>
        ELSE FlatMap(db.flags, LAMBDA f :
                IF f.command_id # link.command_id THEN <<>>
                ELSE <<[command_id |-> link.command_id, resource |-> link.resource,
                        relation |-> RelationOf(link.command_kind, link.verb),
                        flag_name |-> f.name, description |-> f.description,
                        m |-> match_flag_to_field(f.name, FieldNames(db, link.resource))]>>))

\* "if field_name:" holds: a match on a field with a non-empty name.
IsMatched(fm) == fm.m.matched /\ fm.m.field # <<>>

DeterministicLinks(db) ==
    FlatMap(FlagMatches(db), LAMBDA fm :
        IF IsMatched(fm)
        THEN <<FieldLinkRow(fm.command_id, fm.resource, fm.m.field,
                            FieldKind(db, fm.resource, fm.m.field), fm.relation,
                            fm.flag_name, fm.m.match_kind, fm.m.modifier)>>
        ELSE <<>>)

\* unmatched_by_command filled for every flag, matched or not.
UnmatchedByCommand_all(db) == FlagMatches(db)

\* unmatched_by_command
UnmatchedByCommand(db) == Filter(FlagMatches(db), LAMBDA fm : ~IsMatched(fm))

(***************************************************************************)
(* build_command_field_links: the fallback resolver, its cache and its     *)
(* worker pool.  A dict is a function; the empty dict is <<>>.             *)
(***************************************************************************)
llm_model == "gpt-5.2-codex"

Group(resource, relation) == [resource |-> resource, relation |-> relation]

\* The keys of unmatched_by_group.
UnmatchedGroups(db) ==
    {Group(fm.resource, fm.relation) : fm \in Range(UnmatchedByCommand(db))}

\* unmatched_by_group[group] as the list the code sorts by flag name: for each
\* flag name the description of its first entry (setdefault).  A sorted list
\* of pairs with distinct names is given by the set of its pairs.
GroupFlags(db, group) ==
    LET entries == Filter(UnmatchedByCommand(db),
                          LAMBDA fm : Group(fm.resource, fm.relation) = group)
        First(name) == entries[Min({i \in DOMAIN entries : entries[i].flag_name = name})]
    IN  {Flag(n, First(n).description) : n \in {entries[i].flag_name : i \in DOMAIN entries}}

\* sorted(resource_fields[resource].items())
GroupFields(db, resource) ==
    {[name |-> n, kind |-> FieldKind(db, resource, n)] : n \in FieldNames(db, resource)}

\* sha256 of the canonical JSON of the payload: equal for equal payloads,
\* and (no collisions) different for different ones.
llm_cache_key(resource, relation, flags, fields, model) ==
    [resource |-> resource, relation |-> relation, flags |-> flags,
     fields |-> fields, model |-> model]

GroupKey(db, group) ==
    llm_cache_key(group.resource, group.relation, GroupFlags(db, group),
                  GroupFields(db, group.resource), llm_model)

\* "if cached:" in place of "if cached is not None:": an empty cached dict
\* is no hit.
CacheHit_truthy(cache, key) == key \in DOMAIN cache /\ cache[key] # <<>>

\* "cached is not None"
CacheHit(cache, key) == key \in DOMAIN cache

\* The groups answered from the cache, and those that become tasks.
HitGroups(db, cache) == {g \in UnmatchedGroups(db) : CacheHit(cache, GroupKey(db, g))}

MissGroups(db, cache) == UnmatchedGroups(db) \ HitGroups(db, cache)

\* load_llm_cache: no cache without a path (fallback disabled); else the
\* entries of the file whose value is a dict, which is every entry of a file
\* that save_llm_cache wrote.
load_llm_cache(enabled, file) ==
    IF ~enabled THEN <<>> ELSE file

\* save_llm_cache: the whole in-memory cache replaces the file.
save_llm_cache(enabled, file, cache) ==
    IF ~enabled THEN file ELSE cache

\* A run_llm_flag_mapping that stores its result in the cache itself.
run_llm_flag_mapping_cache_writes(cache, key, result) == (key :> result) @@ cache

\* What run_llm_flag_mapping, run in a worker thread, does to the in-memory
\* cache: nothing.
run_llm_flag_mapping_cache(cache, key, result) == cache

\* The dict a mapping gives for a flag (mapping.get): JNull when absent.
DictGet(mapping, name) == IF name \in DOMAIN mapping THEN mapping[name] ELSE JNull

\* "mapped_field and ...": the truth value of a JSON value.
Truthy(value) == (value.t = "str" /\ value.v # <<>>) \/ value.t = "list"

\* The rows the final loop inserts, given mappings (group -> dict).
FallbackLinks(db, mappings) ==
    FlatMap(UnmatchedByCommand(db), LAMBDA e :
        LET g == Group(e.resource, e.relation)
            mapped_field == DictGet(IF g \in DOMAIN mappings THEN mappings[g] ELSE <<>>,
                                    e.flag_name)
        IN  IF mapped_field.t = "str" /\ Truthy(mapped_field)
               /\ mapped_field.v \in FieldNames(db, e.resource)
            THEN <<FieldLinkRow(e.command_id, e.resource, mapped_field.v,
                                FieldKind(db, e.resource, mapped_field.v), e.relation,
                                e.flag_name, "llm", "none")>>
            ELSE <<>>)

\* "mapped_field in fields" raises TypeError (unhashable) for a list.
FallbackRaises(db, mappings) ==
    \E i \in DOMAIN UnmatchedByCommand(db) :
        LET e == UnmatchedByCommand(db)[i]
            g == Group(e.resource, e.relation)
        IN  g \in DOMAIN mappings /\ DictGet(mappings[g], e.flag_name).t = "list"

(***************************************************************************)
(* The state: the database file, the running process, the cache file.      *)
(***************************************************************************)
VARIABLES
    disk_db,        \* the committed contents of knowledge.sqlite
    cache_file,     \* the contents of llm_flag_cache.json (key -> dict)
    pc,             \* where main is: "idle" when no compile is running
    conn,           \* the Store as the running process sees it (its transaction)
    args,           \* the inputs of the run: llm flag, workers, maps, artifact files,
                    \* and the cache file as the run finds it (when it reads it)
    artifact_paths, \* the artifact files main has not visited yet
    llm_cache,      \* the in-memory cache dict
    futures,        \* executor: task key -> state, group and result of its future
    mappings,       \* group -> dict, from the cache or from a completed task
    completed,      \* the counter of the as_completed loop
    cache_changed,
    exit,           \* how the last process ended: "none", "ok", "error", "killed"
    run,            \* number of compile processes started
    resolver_calls, \* keys the external resolver was invoked for in this process
    last_args,      \* the inputs of the last process that ran to its end
    \* callers of normalize_flag_name and match_flag_to_field on their own,
    \* and readers of the views
    flag_name,      \* the flag name the caller holds
    fields,         \* the field names of the resource (the keys of the dict)
    normalizations, \* number of times the caller has normalized flag_name
    match,          \* what match_flag_to_field returned, NotCalled before the call
    scores,         \* the rows a reader's last SELECT on resource_neighbor_scores returned
    \* a call of shortest_paths, one iteration of its while loop at a time
    adjacency,      \* the relationship graph: the rows of resource_field_targets
    start,          \* the resource the search starts from, <<>> when there is no call
    paths,          \* resource -> relation names of the path found to it
    queue,          \* the frontier
    pushes,         \* resource -> number of times it was put in the frontier
    \* the batch queue of the workers, the recover command and the swarm
    pending,        \* the batch files of queue/pending
    processing,     \* the batch files of queue/processing
    artifacts,      \* artifact file -> "valid" or "invalid", for the files that exist
    workers,        \* slot -> the worker process of the slot
    recover,        \* the recover command
    swarm           \* the swarm process

main_vars == <<disk_db, cache_file, pc, conn, args, artifact_paths, llm_cache, futures,
               mappings, completed, cache_changed, exit, run, resolver_calls, last_args>>

search_vars == <<adjacency, start, paths, queue, pushes>>

queue_vars == <<pending, processing, artifacts, workers, recover, swarm>>

call_vars == <<flag_name, fields, normalizations, match, scores, search_vars, queue_vars>>

vars == <<main_vars, call_vars>>

NoArgs == [llm |-> FALSE, llm_workers |-> 1, resource_map |-> RM_full,
           summary_map |-> SM_none, artifacts |-> {}, cache |-> <<>>]

\* The row sets of the derived tables of a Store.
Derived(db) ==
    [command_resource_links |-> Range(db.command_resource_links),
     command_field_links |-> Range(db.command_field_links),
     command_filter_paths |-> Range(db.command_filter_paths),
     summary_dimensions |-> Range(db.summary_dimensions),
     summary_metrics |-> Range(db.summary_metrics),
     command_summary_dimensions |-> Range(db.command_summary_dimensions),
     command_summary_metrics |-> Range(db.command_summary_metrics)]

NotCalled == [matched |-> FALSE, field |-> <<>>, match_kind |-> "not called",
              modifier |-> "none"]

\* No compile has run: the files are as a fresh checkout has them.
MainInit ==
    /\ disk_db = EmptyDb
    /\ cache_file = <<>>
    /\ pc = "idle"
    /\ conn = EmptyDb
    /\ args = NoArgs
    /\ artifact_paths = {}
    /\ llm_cache = <<>>
    /\ futures = <<>>
    /\ mappings = <<>>
    /\ completed = 0
    /\ cache_changed = FALSE
    /\ exit = "none"
    /\ run = 0
    /\ resolver_calls = {}
    /\ last_args = NoArgs

\* No function is called on its own, no view is read.
\* A slot without a worker process.
NoProcess ==
    [pc |-> "none", program |-> "none", loop |-> FALSE, listed |-> <<>>,
     candidates |-> <<>>, batch |-> <<>>, attempt |-> 0, raised |-> FALSE, exit |-> "none"]

\* The recover command and the swarm before they are started.
NotRecovering ==
    [pc |-> "idle", todo |-> <<>>, was_pending |-> {}, was_processing |-> {}]

NoSwarm == [pc |-> "idle", pending |-> FALSE, exit_code |-> "ok"]

\* No batch queue.
NoQueue ==
    /\ pending = {}
    /\ processing = {}
    /\ artifacts = <<>>
    /\ workers = <<>>
    /\ recover = NotRecovering
    /\ swarm = NoSwarm

\* No call of shortest_paths on its own.
NoSearch ==
    /\ adjacency = <<>>
    /\ start = <<>>
    /\ paths = <<>>
    /\ queue = <<>>
    /\ pushes = <<>>

NoCall ==
    /\ flag_name = <<>>
    /\ fields = {}
    /\ normalizations = 0
    /\ match = NotCalled
    /\ scores = {}
    /\ NoSearch
    /\ NoQueue

Init == MainInit /\ NoCall

\* The process is gone: its transaction and its memory with it.
ProcessEnds(status) ==
    /\ pc' = "idle"
    /\ exit' = status
    /\ args' = NoArgs
    /\ artifact_paths' = {}
    /\ llm_cache' = <<>>
    /\ futures' = <<>>
    /\ mappings' = <<>>
    /\ completed' = 0
    /\ cache_changed' = FALSE
    /\ resolver_calls' = {}

Step(from, to) == pc = from /\ pc' = to

\* The inputs of a run: the --llm flag, the pool size, the files of the
\* project and the artifacts directory.  A pool of MaxWorkers threads: every
\* run of a smaller pool is a run of this one.
RunInputs(llm, project, dir) ==
    [llm |-> llm, llm_workers |-> MaxWorkers, resource_map |-> project[1],
     summary_map |-> project[2], artifacts |-> dir]

\* Runs without --llm (the default), of any project and artifacts directory.
Inputs == {RunInputs(FALSE, p, dir) : p \in Projects, dir \in ArtifactDirs}

\* Runs with --llm, of the full project and any artifacts directory.
LlmInputs == {RunInputs(TRUE, <<RM_full, SM_bs>>, dir) : dir \in ArtifactDirs}

\* main starts: arguments parsed, init_db opens the database.
Start(in) ==
    /\ pc = "idle"
    /\ args' = [llm |-> in.llm, llm_workers |-> in.llm_workers,
                resource_map |-> in.resource_map, summary_map |-> in.summary_map,
                artifacts |-> in.artifacts,
                cache |-> IF in.llm THEN cache_file ELSE <<>>]
    /\ artifact_paths' = in.artifacts
    /\ conn' = disk_db
    /\ pc' = "upsert_resource_map"
    /\ run' = run + 1
    /\ exit' = "none"
    /\ UNCHANGED <<disk_db, cache_file, llm_cache, futures, mappings, completed,
                   cache_changed, resolver_calls, last_args, call_vars>>

StartRun == run < MaxRuns /\ \E in \in Inputs : Start(in)

StartLlmRun == run < MaxLlmRuns /\ \E in \in LlmInputs : Start(in)

\* A step on a connection in autocommit mode (isolation_level = None): the
\* statements reach the database file as they are executed.
StoreStep_autocommit(from, to, db) ==
    /\ Step(from, to)
    /\ conn' = db
    /\ disk_db' = db
    /\ UNCHANGED <<cache_file, args, artifact_paths, llm_cache, futures,
                   mappings, completed, cache_changed, exit, run, resolver_calls, last_args, call_vars>>

\* A step of main that only changes the Store.
StoreStep(from, to, db) ==
    /\ Step(from, to)
    /\ conn' = db
    /\ UNCHANGED <<disk_db, cache_file, args, artifact_paths, llm_cache, futures,
                   mappings, completed, cache_changed, exit, run, resolver_calls, last_args, call_vars>>

UpsertResourceMap ==
    StoreStep("upsert_resource_map", "upsert_summary_map",
              upsert_resource_map(conn, args.resource_map))

UpsertSummaryMap ==
    StoreStep("upsert_summary_map", "build_command_resource_links",
              upsert_summary_map(conn, args.summary_map))

BuildCommandResourceLinks ==
    StoreStep("build_command_resource_links", "build_summary_dimensions_metrics",
              build_command_resource_links(conn))

BuildSummaryDimensionsMetrics ==
    StoreStep("build_summary_dimensions_metrics", "build_command_summary_links",
              build_summary_dimensions_metrics(conn))

BuildCommandSummaryLinks ==
    StoreStep("build_command_summary_links", "build_command_filter_paths",
              build_command_summary_links(conn))

BuildCommandFilterPaths ==
    StoreStep("build_command_filter_paths", "load_llm_cache",
              build_command_filter_paths(conn))

LoadLlmCache ==
    /\ Step("load_llm_cache", "build_command_field_links")
    /\ llm_cache' = load_llm_cache(args.llm, cache_file)
    /\ UNCHANGED <<disk_db, cache_file, conn, args, artifact_paths, futures, mappings,
                   completed, cache_changed, exit, run, resolver_calls, last_args, call_vars>>

\* build_command_field_links up to the submission of the tasks: the
\* deterministic pass, then the cache lookup of every unmatched group.
BuildCommandFieldLinks ==
    LET db == [conn EXCEPT !.command_field_links = <<>>]
        hits == HitGroups(db, llm_cache)
        keys == {GroupKey(db, g) : g \in MissGroups(db, llm_cache)}
        GroupOfKey(k) == CHOOSE g \in MissGroups(db, llm_cache) : GroupKey(db, g) = k
    IN  /\ pc = "build_command_field_links"
        /\ conn' = [db EXCEPT !.command_field_links =
                       InsertAll(<<>>, DeterministicLinks(db), PK.command_field_links)]
        /\ IF ~args.llm \/ UnmatchedGroups(db) = {}
           THEN /\ pc' = "artifacts"
                /\ UNCHANGED <<mappings, futures>>
           ELSE /\ mappings' = [g \in hits |-> llm_cache[GroupKey(db, g)]]
                /\ futures' = [k \in keys |->
                                  [state |-> "pending", group |-> GroupOfKey(k),
                                   raised |-> FALSE, result |-> <<>>]]
                /\ pc' = IF keys # {} THEN "executor" ELSE "save_llm_cache"
        /\ UNCHANGED <<disk_db, cache_file, args, artifact_paths, llm_cache, completed,
                       cache_changed, exit, run, resolver_calls, last_args, call_vars>>

Running == {k \in DOMAIN futures : futures[k].state = "running"}

\* A pool thread takes a task and calls run_llm_flag_mapping (the resolver).
WorkerStart ==
    /\ pc = "executor"
    /\ Cardinality(Running) < args.llm_workers
    /\ \E k \in DOMAIN futures :
          /\ futures[k].state = "pending"
          /\ futures' = [futures EXCEPT ![k].state = "running"]
          /\ resolver_calls' = resolver_calls \cup {k}
    /\ UNCHANGED <<disk_db, cache_file, pc, conn, args, artifact_paths, llm_cache,
                   mappings, completed, cache_changed, exit, run, last_args, call_vars>>

\* run_llm_flag_mapping returns a dict ({} on a failure it catches) or raises.
WorkerFinish ==
    /\ pc = "executor"
    /\ \E k \in Running :
          \E raised \in BOOLEAN :
             \E result \in IF raised THEN {<<>>}
                           ELSE ResolverDicts({f.name : f \in k.flags}) :
                /\ futures' = [futures EXCEPT ![k].state = "done",
                                              ![k].raised = raised,
                                              ![k].result = result]
                /\ llm_cache' = run_llm_flag_mapping_cache(llm_cache, k, result)
    /\ UNCHANGED <<disk_db, cache_file, pc, conn, args, artifact_paths, mappings,
                   completed, cache_changed, exit, run, resolver_calls, last_args, call_vars>>

\* The as_completed loop storing only non-empty results in the cache.
Collect_drops_empty ==
    /\ pc = "executor"
    /\ \E k \in DOMAIN futures :
          /\ futures[k].state = "done"
          /\ LET result == IF futures[k].raised THEN <<>> ELSE futures[k].result
             IN  /\ mappings' = (futures[k].group :> result) @@ mappings
                 /\ llm_cache' = IF result = <<>> THEN llm_cache
                                  ELSE (k :> result) @@ llm_cache
          /\ futures' = [futures EXCEPT ![k].state = "yielded"]
          /\ pc' = IF \A j \in DOMAIN futures \ {k} : futures[j].state = "yielded"
                   THEN "save_llm_cache" ELSE "executor"
    /\ cache_changed' = TRUE
    /\ completed' = completed + 1
    /\ UNCHANGED <<disk_db, cache_file, conn, args, artifact_paths, exit, run,
                   resolver_calls, last_args, call_vars>>

\* One iteration of the as_completed loop in the coordinating thread; the
\* with block is left when every future has been yielded.
Collect ==
    /\ pc = "executor"
    /\ \E k \in DOMAIN futures :
          /\ futures[k].state = "done"
          /\ LET result == IF futures[k].raised THEN <<>> ELSE futures[k].result
             IN  /\ mappings' = (futures[k].group :> result) @@ mappings
                 /\ llm_cache' = (k :> result) @@ llm_cache
          /\ futures' = [futures EXCEPT ![k].state = "yielded"]
          /\ pc' = IF \A j \in DOMAIN futures \ {k} : futures[j].state = "yielded"
                   THEN "save_llm_cache" ELSE "executor"
    /\ cache_changed' = TRUE
    /\ completed' = completed + 1
    /\ UNCHANGED <<disk_db, cache_file, conn, args, artifact_paths, exit, run,
                   resolver_calls, last_args, call_vars>>

\* "if cache_changed: save_llm_cache(...)", after the loop.
SaveLlmCache ==
    /\ Step("save_llm_cache", "apply_mappings")
    /\ cache_file' = IF cache_changed THEN save_llm_cache(args.llm, cache_file, llm_cache)
                     ELSE cache_file
    /\ UNCHANGED <<disk_db, conn, args, artifact_paths, llm_cache, futures, mappings,
                   completed, cache_changed, exit, run, resolver_calls, last_args, call_vars>>

\* The final loop of build_command_field_links.  An unhashable mapped value
\* raises; the exception leaves main, and the process ends without a commit.
ApplyMappings ==
    /\ pc = "apply_mappings"
    /\ ~FallbackRaises(conn, mappings)
    /\ pc' = "artifacts"
    /\ conn' = [conn EXCEPT !.command_field_links =
                   InsertAll(conn.command_field_links, FallbackLinks(conn, mappings),
                             PK.command_field_links)]
    \* build_command_field_links returns: its locals are gone, and main does
    \* not read llm_cache again
    /\ futures' = <<>>
    /\ mappings' = <<>>
    /\ completed' = 0
    /\ cache_changed' = FALSE
    /\ llm_cache' = <<>>
    /\ resolver_calls' = {}
    /\ UNCHANGED <<disk_db, cache_file, args, artifact_paths, exit, run, last_args, call_vars>>

ApplyMappingsRaises ==
    /\ pc = "apply_mappings"
    /\ FallbackRaises(conn, mappings)
    /\ ProcessEnds("error")
    /\ conn' = disk_db
    /\ UNCHANGED <<disk_db, cache_file, run, last_args, call_vars>>

\* One iteration of the loop over the artifact files, in any order.
UpsertArtifact ==
    /\ pc = "artifacts"
    /\ \E file \in artifact_paths :
          /\ validate_artifact(file)
          /\ conn' = upsert_artifact(conn, file)
          /\ artifact_paths' = artifact_paths \ {file}
    /\ UNCHANGED <<disk_db, cache_file, pc, args, llm_cache, futures, mappings,
                   completed, cache_changed, exit, run, resolver_calls, last_args, call_vars>>

\* The except clause with "break" in place of "continue": the files not yet
\* visited are left out.
SkipArtifact_breaks ==
    /\ pc = "artifacts"
    /\ \E file \in artifact_paths : ~validate_artifact(file)
    /\ artifact_paths' = {}
    /\ UNCHANGED <<disk_db, cache_file, pc, conn, args, llm_cache, futures, mappings,
                   completed, cache_changed, exit, run, resolver_calls, last_args, call_vars>>

SkipArtifact ==
    /\ pc = "artifacts"
    /\ \E file \in artifact_paths :
          /\ ~validate_artifact(file)
          /\ artifact_paths' = artifact_paths \ {file}
    /\ UNCHANGED <<disk_db, cache_file, pc, conn, args, llm_cache, futures, mappings,
                   completed, cache_changed, exit, run, resolver_calls, last_args, call_vars>>

\* conn.commit(): the transaction becomes the database file.
Commit ==
    /\ pc = "artifacts"
    /\ artifact_paths = {}
    /\ pc' = "finish"
    /\ disk_db' = conn
    /\ last_args' = args
    /\ UNCHANGED <<cache_file, conn, args, artifact_paths, llm_cache, futures, mappings,
                   completed, cache_changed, exit, run, resolver_calls, call_vars>>

\* conn.close(), the copy of the database file to the embedded path, the
\* final message: main returns.  None of it changes the Store.
Finish ==
    /\ pc = "finish"
    /\ ProcessEnds("ok")
    /\ conn' = disk_db
    /\ UNCHANGED <<disk_db, cache_file, run, last_args, call_vars>>

\* The process is killed: a transaction not yet committed is rolled back.
Interrupt ==
    /\ pc # "idle"
    /\ ProcessEnds("killed")
    /\ conn' = disk_db
    /\ UNCHANGED <<disk_db, cache_file, run, last_args, call_vars>>

\* The steps of main outside the fallback resolver.
Pipeline ==
    \/ UpsertResourceMap
    \/ UpsertSummaryMap
    \/ BuildCommandResourceLinks
    \/ BuildSummaryDimensionsMetrics
    \/ BuildCommandSummaryLinks
    \/ BuildCommandFilterPaths
    \/ LoadLlmCache
    \/ BuildCommandFieldLinks
    \/ UpsertArtifact
    \/ SkipArtifact
    \/ Commit
    \/ Finish
    \/ Interrupt

\* The steps of the fallback resolver, which only a run with --llm takes.
Fallback ==
    \/ WorkerStart
    \/ WorkerFinish
    \/ Collect
    \/ SaveLlmCache
    \/ ApplyMappings
    \/ ApplyMappingsRaises

Next == StartRun \/ Pipeline

\* Compiles without --llm, one after the other.
Spec == Init /\ [][Next]_vars

NextLlm == StartLlmRun \/ Pipeline \/ Fallback

\* Compiles with --llm, one after the other.
SpecLlm == Init /\ [][NextLlm]_vars

(***************************************************************************)
(* Compiles of one project whose only command is "view as list" with one   *)
(* flag, over resource maps whose relationship graphs differ.              *)
(***************************************************************************)
r_c == <<"c">>
r_ds == <<"d", "s">>
f_part == <<"p", "a", "r", "t">>

Resource(name, attributes) == [name |-> name, label_fields |-> <<>>, attributes |-> attributes]

Relationship(resource, rel_name, resources) ==
    [resource |-> resource, rel_name |-> rel_name, resources |-> resources]

\* as --owns--> bs --has--> cs --part--> c
RM_both ==
    [resources |-> RM_full.resources \o <<Resource(r_c, <<>>)>>,
     relationships |-> RM_full.relationships \o <<Relationship(r_cs, f_part, <<r_c>>)>>]

\* as --owns--> bs --has--> ds --has--> c --part--> cs
RM_chain ==
    [resources |-> <<Resource(r_as, <<f_name>>), Resource(r_bs, <<f_active>>),
                     Resource(r_ds, <<>>), Resource(r_c, <<>>), Resource(r_cs, <<>>)>>,
     relationships |-> <<Relationship(r_as, f_owns, <<r_bs>>),
                         Relationship(r_bs, f_has, <<r_ds>>),
                         Relationship(r_ds, f_has, <<r_c>>),
                         Relationship(r_c, f_part, <<r_cs>>)>>]

\* as --owns--> bs --has--> cs, and as --part--> cs
RM_short ==
    [resources |-> RM_full.resources,
     relationships |-> RM_full.relationships \o <<Relationship(r_as, f_part, <<r_cs>>)>>]

\* as --owns--> c and as --owns--> cs: one relationship with two targets
RM_multi ==
    [resources |-> <<Resource(r_as, <<f_name>>), Resource(r_c, <<>>), Resource(r_cs, <<>>)>>,
     relationships |-> <<Relationship(r_as, f_owns, <<r_c, r_cs>>)>>]

\* as --owns--> bs, bs --has--> as and bs --has--> cs
RM_cycle ==
    [resources |-> RM_full.resources,
     relationships |-> <<Relationship(r_as, f_owns, <<r_bs>>),
                         Relationship(r_bs, f_has, <<r_as, r_cs>>)>>]

PathMaps == {RM_full, RM_part, RM_both, RM_chain, RM_short, RM_multi, RM_cycle}

PathFlags ==
    {<<"-", "-", "c", "-", "i", "d">>, <<"-", "-", "c", "s", "-", "m", "i", "n">>,
     <<"-", "-", "n", "o", "t", "-", "c">>, <<"-", "-", "b", "s">>,
     <<"-", "-", "b", "-", "i", "d", "s">>, <<"-", "-", "h", "a", "s">>,
     <<"-", "-", "a", "c", "t", "i", "v", "e">>, fl_owns_id, fl_name,
     <<"-", "-">> \o W.not \o f_owns \o W.id}

A_flag(flag) ==
    [file |-> "view_as_list.json", ok |-> TRUE, id |-> "c1",
     full_path |-> W.view \o SP \o r_as \o SP \o W.list,
     description |-> "list as",
     flags |-> <<Flag(flag, "filter")>>,
     sources |-> <<>>]

PathInputs ==
    {RunInputs(FALSE, <<rm, SM_none>>, {A_flag(flag), A_bad}) : rm \in PathMaps, flag \in PathFlags}

\* A run of the project: the one of the last complete run, if there was one.
StartPathRun ==
    /\ run < MaxRuns
    /\ \E in \in PathInputs :
          /\ last_args # NoArgs =>
                 /\ in.resource_map = last_args.resource_map
                 /\ in.artifacts = last_args.artifacts
          /\ Start(in)

NextPaths == StartPathRun \/ Pipeline

SpecPaths == Init /\ [][NextPaths]_vars

(***************************************************************************)
(* Compiles of one project with commands "view as list" and "view bs       *)
(* list", over resource maps that declare 0 to MaxRelationships            *)
(* relationships from as to bs, and readers of resource_neighbor_scores.   *)
(***************************************************************************)
RelName(i) == <<"r", Alphabet[i]>>

RM_rels(n) ==
    [resources |-> <<Resource(r_as, <<f_name>>), Resource(r_bs, <<f_name>>)>>,
     relationships |-> [i \in 1..n |-> Relationship(r_as, RelName(i), <<r_bs>>)]]

ViewMaps == {RM_rels(n) : n \in 0..MaxRelationships}

A_view(id, resource, flags) ==
    [file |-> id, ok |-> TRUE, id |-> id,
     full_path |-> W.view \o SP \o resource \o SP \o W.list,
     description |-> "list",
     flags |-> [i \in DOMAIN flags |-> Flag(flags[i], "filter")],
     sources |-> <<>>]

DateFlags == <<fl_name, <<"-", "-">> \o W.created_at, <<"-", "-">> \o W.updated_at>>

ViewDirs ==
    { {A_view("c1", r_as, DateFlags), A_view("c2", r_bs, DateFlags), A_bad},
      {A_view("c1", r_as, <<fl_name, <<"-", "-", "b", "s">>, <<"-", "-", "b", "-", "i", "d">>>>),
       A_bad} }

ViewInputs ==
    {RunInputs(FALSE, <<rm, sm>>, dir) :
        rm \in ViewMaps, sm \in {SM_none, SM_bs}, dir \in ViewDirs}

StartViewRun ==
    /\ run < MaxRuns
    /\ \E in \in ViewInputs :
          /\ last_args # NoArgs =>
                 /\ in.resource_map = last_args.resource_map
                 /\ in.summary_map = last_args.summary_map
                 /\ in.artifacts = last_args.artifacts
          /\ Start(in)

\* A SELECT of all rows of resource_neighbor_scores, on the database file.
QueryNeighborScores ==
    /\ pc = "idle"
    /\ scores' = resource_neighbor_scores(disk_db)
    /\ UNCHANGED <<flag_name, fields, normalizations, match, main_vars, search_vars, queue_vars>>

NextViews == StartViewRun \/ Pipeline \/ QueryNeighborScores

SpecViews == Init /\ [][NextViews]_vars

(***************************************************************************)
(* Runs with --llm on commands of every kind and verb.                     *)
(***************************************************************************)
MaxKindRuns == 3

fl_active == <<"-", "-", "a", "c", "t", "i", "v", "e">>
fl_force == <<"-", "-", "f", "o", "r", "c", "e">>

K_show ==
    [file |-> "view_as_show.json", ok |-> TRUE, id |-> "c5",
     full_path |-> W.view \o SP \o r_as \o SP \o W.show,
     description |-> "show as",
     flags |-> <<Flag(fl_name, "name"), Flag(fl_q, "query")>>,
     sources |-> <<>>]

K_delete ==
    [file |-> "do_as_delete.json", ok |-> TRUE, id |-> "c6",
     full_path |-> W.do \o SP \o r_as \o SP \o <<"d", "e", "l", "e", "t", "e">>,
     description |-> "delete as",
     flags |-> <<Flag(fl_name, "name"), Flag(fl_force, "no prompt")>>,
     sources |-> <<>>]

K_update ==
    [file |-> "do_as_update.json", ok |-> TRUE, id |-> "c7",
     full_path |-> W.do \o SP \o r_as \o SP \o W.update,
     description |-> "update as",
     flags |-> <<Flag(fl_name, "name")>>,
     sources |-> <<>>]

K_summarize ==
    [file |-> "summarize_b_create_v2.json", ok |-> TRUE, id |-> "c8",
     full_path |-> W.summarize \o SP \o <<"b">> \o SP \o W.create,
     description |-> "summarize b",
     flags |-> <<Flag(fl_active, "active only")>>,
     sources |-> << [repo_name |-> "cli", file_path |-> "cmd/summarize_b.go"] >>]

K_list ==
    [file |-> "view_as_list_v3.json", ok |-> TRUE, id |-> "c9",
     full_path |-> W.view \o SP \o r_as \o SP \o W.list,
     description |-> "list as",
     flags |-> <<Flag(fl_name, "name")>>,
     sources |-> <<>>]

KindDirs ==
    { {K_show, K_delete, K_list},
      {K_update, K_summarize, A_bad} }

KindInputs == {RunInputs(TRUE, <<RM_full, SM_bs>>, dir) : dir \in KindDirs}

StartKindRun == run < MaxKindRuns /\ \E in \in KindInputs : Start(in)

NextKinds == StartKindRun \/ Pipeline \/ Fallback

SpecKinds == Init /\ [][NextKinds]_vars

(***************************************************************************)
(* shortest_paths called on its own, on relationship graphs with cycles,   *)
(* self-loops and chains longer than max_hops.                             *)
(***************************************************************************)
MaxResources == 5

NodeName(i) == <<"n", Alphabet[i]>>

Edge(i, j) == [resource |-> NodeName(i), field |-> RelName(j), target_resource |-> NodeName(j)]

\* The edges a graph may have: the chain 1 -> 2 -> ... -> MaxResources,
\* self-loops on 1 and 2, the short cut 1 -> 3 and the back edges 3 -> 1
\* and MaxResources -> 1.
SearchEdges ==
    {Edge(i, i + 1) : i \in 1..(MaxResources - 1)}
        \cup {Edge(1, 1), Edge(2, 2), Edge(1, 3), Edge(3, 1), Edge(MaxResources, 1)}

InitSearch ==
    /\ MainInit
    /\ flag_name = <<>>
    /\ fields = {}
    /\ normalizations = 0
    /\ match = NotCalled
    /\ scores = {}
    /\ adjacency \in {SetToSeq(edges) : edges \in SUBSET SearchEdges}
    /\ start \in {NodeName(i) : i \in 1..MaxResources}
    /\ paths = <<>>
    /\ queue = <<>>
    /\ pushes = <<>>
    /\ NoQueue

\* paths = {start: []}; queue = [start]
ShortestPathsCall ==
    /\ start # <<>>
    /\ paths = <<>>
    /\ paths' = (start :> <<>>)
    /\ queue' = <<start>>
    /\ pushes' = (start :> 1)
    /\ UNCHANGED <<adjacency, start, flag_name, fields, normalizations, match, scores,
                   main_vars, queue_vars>>

\* pushes after the resources of `pushed` were appended to the queue.
CountPushes(pushed) ==
    [x \in DOMAIN pushes \cup Range(pushed) |->
        (IF x \in DOMAIN pushes THEN pushes[x] ELSE 0)
            + Cardinality({i \in DOMAIN pushed : pushed[i] = x})]

\* One iteration of "while queue:".
ShortestPathsIteration ==
    /\ queue # <<>>
    /\ LET current == Head(queue)
           path == paths[current]
           r == ExpandEdges(AdjacencyOf(adjacency, current), path, paths, Tail(queue))
       IN  IF Len(path) >= max_hops
           THEN /\ queue' = Tail(queue)
                /\ UNCHANGED <<paths, pushes>>
           ELSE /\ paths' = r.paths
                /\ queue' = r.queue
                /\ pushes' = CountPushes(SubSeq(r.queue, Len(queue), Len(r.queue)))
    /\ UNCHANGED <<adjacency, start, flag_name, fields, normalizations, match, scores,
                   main_vars, queue_vars>>

NextSearch == ShortestPathsCall \/ ShortestPathsIteration

SpecSearch == InitSearch /\ [][NextSearch]_vars

\* The interpreter runs the call and every iteration of the loop.
FairSpecSearch == SpecSearch /\ WF_vars(NextSearch)

(***************************************************************************)
(* The batch queue: worker.py and resource_map_worker.py (claim_batch,     *)
(* process_batch, the loop of main), recover.py and resource_map_swarm.py. *)
(* A batch file is named batch_<noun>.json (n = <<>>) or, after recover    *)
(* renamed it, batch_<noun>_recovered_<i>.json (n = <<i>>), and so on; its *)
(* content is the batch of the noun.                                       *)
(***************************************************************************)
MaxQueueWorkers == 2
MaxRecovered == 1

Nouns == <<"x", "y">>

BatchFile(noun, n) == [noun |-> noun, n |-> n]

\* The order of file names in sorted(glob("batch_*.json")): by noun, a
\* name before the names recover derives from it ("." sorts before "_").
RECURSIVE IndicesBefore(_, _)
IndicesBefore(m, n) ==
    IF m = <<>> THEN TRUE
    ELSE IF n = <<>> THEN FALSE
    ELSE IF Head(m) # Head(n) THEN Head(m) < Head(n)
    ELSE IndicesBefore(Tail(m), Tail(n))

NameBefore(f, g) ==
    LET rank(file) == CHOOSE i \in DOMAIN Nouns : Nouns[i] = file.noun
    IN  IF f.noun # g.noun THEN rank(f) < rank(g) ELSE IndicesBefore(f.n, g.n)

RECURSIVE SortedFiles(_)
SortedFiles(files) ==
    IF files = {} THEN <<>>
    ELSE LET first == CHOOSE f \in files : \A g \in files : NameBefore(f, g)
         IN  <<first>> \o SortedFiles(files \ {first})

\* The artifact files of a batch: one per command for worker.py (batch x
\* has two commands), one for resource_map_worker.py.
Targets(program, noun) ==
    IF program = "resource_map_worker" THEN {noun}
    ELSE IF noun = "x" THEN {"x1", "x2"} ELSE {noun \o "1"}

max_attempts(program) == IF program = "resource_map_worker" THEN 2 ELSE 1

Slots == 1..MaxQueueWorkers

IsRunning(w) == workers[w].pc \notin {"none", "exited"}

\* The process of a slot starts: main up to its first claim_batch.
Spawn(program, loop) ==
    [NoProcess EXCEPT !.pc = "claim", !.program = program, !.loop = loop]

Exited(worker, code) ==
    [NoProcess EXCEPT !.pc = "exited", !.program = worker.program, !.exit = code]

WorkerStep(w, worker) ==
    /\ workers' = [workers EXCEPT ![w] = worker]
    /\ UNCHANGED <<recover, swarm, main_vars, flag_name, fields, normalizations, match, scores,
                   search_vars>>

\* The operator starts worker.py, with or without --loop.
StartWorker(w) ==
    /\ ~IsRunning(w)
    /\ \E loop \in BOOLEAN : WorkerStep(w, Spawn("worker", loop))
    /\ UNCHANGED <<pending, processing, artifacts>>

\* claim_batch: candidates = sorted(pending_dir.glob("batch_*.json"))
ClaimList(w) ==
    /\ workers[w].pc = "claim"
    /\ WorkerStep(w, [workers[w] EXCEPT !.pc = "rename", !.listed = SortedFiles(pending),
                                        !.candidates = SortedFiles(pending)])
    /\ UNCHANGED <<pending, processing, artifacts>>

\* claim_batch returning None as soon as a rename fails.
ClaimRename_gives_up(w) ==
    LET candidate == Head(workers[w].candidates)
    IN  /\ workers[w].pc = "rename"
        /\ workers[w].candidates # <<>>
        /\ IF candidate \in pending
           THEN /\ pending' = pending \ {candidate}
                /\ processing' = processing \cup {candidate}
                /\ WorkerStep(w, [workers[w] EXCEPT !.pc = "load", !.batch = candidate,
                                                    !.candidates = <<>>])
           ELSE /\ WorkerStep(w, Exited(workers[w], "ok"))
                /\ UNCHANGED <<pending, processing>>
        /\ UNCHANGED artifacts

\* claim_batch, one iteration of its for loop: os.rename moves the
\* candidate to processing (replacing a file of that name), or raises
\* FileNotFoundError when another process has moved it.
ClaimRename(w) ==
    LET candidate == Head(workers[w].candidates)
    IN  /\ workers[w].pc = "rename"
        /\ workers[w].candidates # <<>>
        /\ IF candidate \in pending
           THEN /\ pending' = pending \ {candidate}
                /\ processing' = processing \cup {candidate}
                /\ WorkerStep(w, [workers[w] EXCEPT !.pc = "load", !.batch = candidate,
                                                    !.candidates = <<>>])
           ELSE /\ WorkerStep(w, [workers[w] EXCEPT !.candidates = Tail(@)])
                /\ UNCHANGED <<pending, processing>>
        /\ UNCHANGED artifacts

\* claim_batch returns None: "No pending batches found.", main returns.
ClaimNone(w) ==
    /\ workers[w].pc = "rename"
    /\ workers[w].candidates = <<>>
    /\ WorkerStep(w, Exited(workers[w], "ok"))
    /\ UNCHANGED <<pending, processing, artifacts>>

\* process_batch before its try block: the batch file, repo_map.json and
\* the help texts are read.  A batch file that is gone, or a CLI binary
\* that cannot be started, raises: the process ends.
LoadBatch(w) ==
    /\ workers[w].pc = "load"
    /\ \E ok \in BOOLEAN :
          IF ok /\ workers[w].batch \in processing
          THEN WorkerStep(w, [workers[w] EXCEPT !.pc = "agent", !.attempt = 1])
          ELSE WorkerStep(w, Exited(workers[w], "error"))
    /\ UNCHANGED <<pending, processing, artifacts>>

\* The files of `targets` removed.
Unlink(files, targets) == [t \in DOMAIN files \ targets |-> files[t]]

\* One attempt: the target files are removed, the agent runs and writes
\* some of them, valid or not, and returns or fails.
RunAgent(w) ==
    LET worker == workers[w]
        targets == Targets(worker.program, worker.batch.noun)
    IN  /\ worker.pc = "agent"
        /\ \E raised \in BOOLEAN :
              \E written \in [targets -> {"absent", "valid", "invalid"}] :
                 LET wrote == {t \in targets : written[t] # "absent"}
                     files == [t \in wrote |-> written[t]] @@ Unlink(artifacts, targets)
                 IN  /\ artifacts' = files
                     /\ IF /\ ~raised
                           /\ \E t \in targets : written[t] # "valid"
                           /\ worker.attempt < max_attempts(worker.program)
                        THEN WorkerStep(w, [worker EXCEPT !.attempt = @ + 1])
                        ELSE WorkerStep(w, [worker EXCEPT !.pc = "validate",
                                                          !.raised = raised])
        /\ UNCHANGED <<pending, processing>>

\* The rest of the try block and the except clause of process_batch, then
\* the loop of main.
FinishBatch(w) ==
    LET worker == workers[w]
        targets == Targets(worker.program, worker.batch.noun)
        valid == /\ ~worker.raised
                 /\ \A t \in targets : t \in DOMAIN artifacts /\ artifacts[t] = "valid"
    IN  /\ worker.pc = "validate"
        /\ IF valid
           THEN /\ processing' = processing \ {worker.batch}
                /\ UNCHANGED <<pending, artifacts>>
                /\ WorkerStep(w, IF worker.loop THEN Spawn(worker.program, TRUE)
                                 ELSE Exited(worker, "ok"))
           ELSE /\ artifacts' = Unlink(artifacts, targets)
                /\ processing' = processing \ {worker.batch}
                /\ pending' = IF worker.batch \in processing
                              THEN pending \cup {worker.batch} ELSE pending
                /\ WorkerStep(w, Exited(worker, "error"))

WorkerNext(w) ==
    ClaimList(w) \/ ClaimRename(w) \/ ClaimNone(w) \/ LoadBatch(w) \/ RunAgent(w)
        \/ FinishBatch(w)

\* The queue as the dispatcher leaves it.
Dispatched ==
    /\ pending = {BatchFile(Nouns[i], <<>>) : i \in DOMAIN Nouns}
    /\ processing = {}
    /\ artifacts = <<>>

InitQueue ==
    /\ MainInit
    /\ flag_name = <<>>
    /\ fields = {}
    /\ normalizations = 0
    /\ match = NotCalled
    /\ scores = {}
    /\ NoSearch
    /\ Dispatched
    /\ workers = [w \in Slots |-> NoProcess]
    /\ recover = NotRecovering
    /\ swarm = NoSwarm

NextQueue == \E w \in Slots : StartWorker(w) \/ WorkerNext(w)

\* Workers started by hand on a dispatched queue.
SpecQueue == InitQueue /\ [][NextQueue]_vars

(***************************************************************************)
(* recover.py, run while no worker runs.                                   *)
(***************************************************************************)
\* batch_path.stem + "_recovered_<index>.json"
Recovered(file, index) == BatchFile(file.noun, Append(file.n, index))

\* The destination of a batch in pending: its own name, or the first
\* _recovered_<index> name that no file of pending has.
Destination(file) ==
    IF file \notin pending THEN file
    ELSE LET index == CHOOSE i \in 1..(Cardinality(pending) + 1) :
                         /\ Recovered(file, i) \notin pending
                         /\ \A j \in 1..(i - 1) : Recovered(file, j) \in pending
         IN  Recovered(file, index)

RecoverStep(next) ==
    /\ recover' = next
    /\ UNCHANGED <<workers, swarm, main_vars, flag_name, fields, normalizations, match,
                   scores, search_vars>>

\* main: for batch_path in sorted(processing_dir.glob("batch_*.json"))
RecoverStart ==
    /\ recover.pc = "idle"
    /\ RecoverStep([pc |-> "batches", todo |-> SortedFiles(processing),
                    was_pending |-> pending, was_processing |-> processing])
    /\ UNCHANGED <<pending, processing, artifacts>>

\* recover_batch with os.rename(batch_path, pending_dir / batch_path.name)
\* whether that file exists or not.
RecoverBatch_overwrites ==
    LET batch == Head(recover.todo)
    IN  /\ recover.pc = "batches"
        /\ recover.todo # <<>>
        /\ artifacts' = Unlink(artifacts, Targets("worker", batch.noun))
        /\ processing' = processing \ {batch}
        /\ pending' = pending \cup {batch}
        /\ RecoverStep([recover EXCEPT !.todo = Tail(@)])

\* recover_batch: the artifact of every command of the batch is deleted
\* and the batch file is renamed into pending.
RecoverBatch ==
    LET batch == Head(recover.todo)
    IN  /\ recover.pc = "batches"
        /\ recover.todo # <<>>
        /\ artifacts' = Unlink(artifacts, Targets("worker", batch.noun))
        /\ processing' = processing \ {batch}
        /\ pending' = pending \cup {Destination(batch)}
        /\ RecoverStep([recover EXCEPT !.todo = Tail(@)])

\* print("Recovered ..."), main returns.
RecoverFinish ==
    /\ recover.pc = "batches"
    /\ recover.todo = <<>>
    /\ RecoverStep([recover EXCEPT !.pc = "done"])
    /\ UNCHANGED <<pending, processing, artifacts>>

\* The batch file names recover may find: those the dispatcher wrote and
\* those an earlier recover derived from them.
QueueFiles ==
    {BatchFile(Nouns[i], <<>>) : i \in DOMAIN Nouns}
        \cup {BatchFile("x", <<index>>) : index \in 1..MaxRecovered}

\* recover is started on queue directories left behind by workers that
\* crashed and by whoever restored batch files; artifacts of earlier runs
\* exist or not.
InitRecover ==
    /\ MainInit
    /\ flag_name = <<>>
    /\ fields = {}
    /\ normalizations = 0
    /\ match = NotCalled
    /\ scores = {}
    /\ NoSearch
    /\ pending \in SUBSET QueueFiles
    /\ processing \in SUBSET QueueFiles
    /\ artifacts \in UNION {[targets -> {"valid", "invalid"}] :
                                targets \in SUBSET {"x1", "x2", "y1"}}
    /\ workers = [w \in Slots |-> NoProcess]
    /\ recover = NotRecovering
    /\ swarm = NoSwarm

NextRecover == RecoverStart \/ RecoverBatch \/ RecoverFinish

SpecRecover == InitRecover /\ [][NextRecover]_vars

(***************************************************************************)
(* resource_map_swarm.py in loop mode (no --max-batches): its slots are    *)
(* the processes list, its workers run resource_map_worker.py --loop.      *)
(***************************************************************************)
SwarmStep(next) ==
    /\ swarm' = next
    /\ UNCHANGED <<pending, processing, artifacts, recover, main_vars, flag_name, fields,
                   normalizations, match, scores, search_vars>>

\* pending = sorted(glob); nothing pending: sys.exit(exit_code); otherwise
\* max(concurrency, 1) workers are spawned.
SwarmStart ==
    /\ swarm.pc = "idle"
    /\ IF pending = {}
       THEN /\ SwarmStep([swarm EXCEPT !.pc = "exited"])
            /\ UNCHANGED workers
       ELSE /\ SwarmStep([swarm EXCEPT !.pc = "glob"])
            /\ workers' = [w \in Slots |-> Spawn("resource_map_worker", TRUE)]

\* while True: pending = sorted(pending_dir.glob("batch_*.json"))
SwarmGlob ==
    /\ swarm.pc = "glob"
    /\ SwarmStep([swarm EXCEPT !.pc = "poll", !.pending = (pending # {})])
    /\ UNCHANGED workers

\* The for loop over the processes with the pending list read before it,
\* then the test that ends the while loop, or time.sleep(1).
SwarmPoll ==
    LET exited == {w \in Slots : workers[w].pc = "exited"}
        any_running == \/ \E w \in Slots : IsRunning(w)
                       \/ swarm.pending /\ exited # {}
        exit_code == IF \E w \in exited : workers[w].exit # "ok"
                     THEN "error" ELSE swarm.exit_code
    IN  /\ swarm.pc = "poll"
        /\ workers' = [w \in Slots |->
                          IF w \notin exited THEN workers[w]
                          ELSE IF swarm.pending THEN Spawn("resource_map_worker", TRUE)
                          ELSE NoProcess]
        /\ SwarmStep([swarm EXCEPT
                         !.pc = IF ~swarm.pending /\ ~any_running THEN "exited" ELSE "glob",
                         !.exit_code = exit_code])

SwarmNext == SwarmStart \/ SwarmGlob \/ SwarmPoll

\* The resource-map queue as its dispatcher leaves it.
InitSwarm ==
    /\ MainInit
    /\ flag_name = <<>>
    /\ fields = {}
    /\ normalizations = 0
    /\ match = NotCalled
    /\ scores = {}
    /\ NoSearch
    /\ Dispatched
    /\ workers = [w \in Slots |-> NoProcess]
    /\ recover = NotRecovering
    /\ swarm = NoSwarm

NextSwarm == SwarmNext \/ \E w \in Slots : WorkerNext(w)

SpecSwarm == InitSwarm /\ [][NextSwarm]_vars

\* The swarm's loop goes on, and every worker process goes on until it
\* exits.
FairSpecSwarm ==
    SpecSwarm /\ WF_vars(SwarmNext) /\ \A w \in Slots : WF_vars(WorkerNext(w))

(***************************************************************************)
(* normalize_flag_name and match_flag_to_field called on their own, on     *)
(* flag names as a command may declare them and on the field names of a    *)
(* resource.                                                               *)
(***************************************************************************)
f_owner == <<"o", "w", "n", "e", "r">>

\* What a name may start with: dashes, with whitespace or an underscore
\* around them.
NamePrefixes == {<<>>, <<"-", "-">>, <<" ", "-", "-">>, <<"-", "-", "_">>, <<"-", "-", " ">>}

NameHeads == {<<>>, W.not, W.is}

NameStems == {f_active, <<"A", "c", "t", "i", "v", "e">>, W.updated_at, f_owner}

NameTails ==
    {<<>>, W.min, W.max, W.before, W.after, W.id, W.ids, W.id \o W.min,
     <<"_", "m", "i", "n">>, <<" ">>, <<" ", "x">>}

FlagNames ==
    {p \o h \o s \o t : p \in NamePrefixes, h \in NameHeads, s \in NameStems, t \in NameTails}

FieldSets ==
    { {},
      {f_active},
      {f_active, W.not \o f_active},
      {f_active \o W.min, W.not \o f_active},
      {f_active, f_active \o W.min},
      {W.is \o f_active, f_active \o W.id},
      {W.updated_at},
      {f_owner},
      {f_owner, f_owner \o W.id} }

InitMatch ==
    /\ MainInit
    /\ flag_name \in FlagNames
    /\ fields \in FieldSets
    /\ normalizations = 0
    /\ match = NotCalled
    /\ scores = {}
    /\ NoSearch
    /\ NoQueue

\* flag_name = normalize_flag_name(flag_name), before the name is matched.
NormalizeFlagName ==
    /\ normalizations < MaxNormalizations
    /\ match = NotCalled
    /\ flag_name' = normalize_flag_name(flag_name)
    /\ normalizations' = normalizations + 1
    /\ UNCHANGED <<fields, match, scores, main_vars, search_vars, queue_vars>>

MatchFlagToField ==
    /\ match = NotCalled
    /\ match' = match_flag_to_field(flag_name, fields)
    /\ UNCHANGED <<flag_name, fields, normalizations, scores, main_vars, search_vars, queue_vars>>

NextMatch == NormalizeFlagName \/ MatchFlagToField

\* Calls of the two functions on one flag name and one resource.
SpecMatch == InitMatch /\ [][NextMatch]_vars

(***************************************************************************)
(* Properties of a compile run.                                            *)
(***************************************************************************)
\* main has reached conn.commit(): the transaction holds what the run leaves.
AtCommit == pc = "artifacts" /\ artifact_paths = {}

\* The valid artifact files the loop of main has ingested so far.
Ingested == {file \in args.artifacts \ artifact_paths : validate_artifact(file)}

\* C1: a run with the inputs of the run before it (the same files, fallback
\* disabled or the same cache found) leaves every derived table with the
\* rows the run before it left.
C1_Idempotent ==
    (AtCommit /\ args = last_args) => Derived(conn) = Derived(disk_db)

\* C2: after a single run on an empty Store, every ingested command whose
\* path classifies against a resource has its command_resource_links row,
\* and every flag of it that a deterministic rule matches has its
\* command_field_links row.
C2_StageOrder ==
    (AtCommit /\ disk_db = EmptyDb) =>
        /\ \A i \in DOMAIN conn.commands :
              ClassifyCommand(conn, conn.commands[i]) # <<>> =>
                 \E l \in Range(conn.command_resource_links) :
                    l.command_id = conn.commands[i].id
        /\ Range(DeterministicLinks(build_command_resource_links(conn)))
              \subseteq Range(conn.command_field_links)

\* C3: once upsert_artifact has run for a file, the flags and sources rows
\* of its command are exactly those the file lists, and the commands row of
\* its id holds the file's attributes.
C3_UpsertReplaces ==
    pc = "artifacts" =>
        \A file \in Ingested :
            (\A other \in Ingested : other.id = file.id => other = file) =>
                /\ SeqWith(conn.flags, "command_id", file.id) = FlagRows(file)
                /\ SeqWith(conn.sources, "command_id", file.id) = SourceRows(file)
                /\ SeqWith(conn.commands, "id", file.id) = <<CommandRow(file)>>

\* A run re-ingests command c1, whose stored flags and sources differ from
\* those of the new file.
C3_Witness ==
    /\ pc = "artifacts"
    /\ A_list2 \in Ingested
    /\ \E i \in DOMAIN disk_db.flags :
          disk_db.flags[i].command_id = A_list2.id /\ disk_db.flags[i].name = fl_name
    /\ \E i \in DOMAIN disk_db.sources : disk_db.sources[i].command_id = A_list2.id

\* The command ids some row of the three command tables of a Store has.
CommandIds(db) ==
    {db.commands[i].id : i \in DOMAIN db.commands}
        \cup {db.flags[i].command_id : i \in DOMAIN db.flags}
        \cup {db.sources[i].command_id : i \in DOMAIN db.sources}

\* The rows of commands that the run has not re-ingested are those stored.
OtherCommandsKept ==
    \A id \in (CommandIds(disk_db) \cup CommandIds(conn)) \ {file.id : file \in Ingested} :
        /\ SeqWith(conn.commands, "id", id) = SeqWith(disk_db.commands, "id", id)
        /\ SeqWith(conn.flags, "command_id", id) = SeqWith(disk_db.flags, "command_id", id)
        /\ SeqWith(conn.sources, "command_id", id) = SeqWith(disk_db.sources, "command_id", id)

\* The resources the resource map of the run names.
MapResources == {args.resource_map.resources[i].name : i \in DOMAIN args.resource_map.resources}

ResourceMapLoaded == pc \notin {"idle", "upsert_resource_map"}

\* C4, as claimed: the rows of the base tables whose identity is not in the
\* re-ingested part (the ingested artifacts, the resources of the resource
\* map) are unchanged.
C4_PartialKeepsAll ==
    /\ pc # "idle" => OtherCommandsKept
    /\ ResourceMapLoaded =>
          /\ \A r \in Range(disk_db.resources) :
                r.name \notin MapResources => r \in Range(conn.resources)
          /\ \A f \in Range(disk_db.resource_fields) :
                f.resource \notin MapResources => f \in Range(conn.resource_fields)

\* C4, amended: the rows of commands, flags and sources of the commands the
\* run has not re-ingested are unchanged, while resources and
\* resource_fields hold the rows of the run's resource map and no others.
C4_PartialKeepsCommands ==
    /\ pc # "idle" => OtherCommandsKept
    /\ ResourceMapLoaded =>
          /\ conn.resources = upsert_resource_map(EmptyDb, args.resource_map).resources
          /\ conn.resource_fields =
                upsert_resource_map(EmptyDb, args.resource_map).resource_fields
          /\ ResourceNames(conn) = MapResources

\* A run has re-ingested c1 only, with a resource map that names only as,
\* on a Store that holds command c2 and resource bs.
C4_Witness ==
    /\ AtCommit
    /\ {file.id : file \in Ingested} = {A_list2.id}
    /\ A_create.id \in CommandIds(disk_db)
    /\ \E i \in DOMAIN disk_db.flags : disk_db.flags[i].command_id = A_create.id
    /\ args.resource_map = RM_part
    /\ r_bs \in ResourceNames(disk_db)

\* Every row of the three link tables of a Store names a resource of
\* resources and a field of resource_fields of that resource, and a filter
\* path names a target resource of resources (and, when it names a target
\* field, a field of the target).
HasField(db, resource, name) == name \in FieldNames(db, resource)

LinksResolve(db) ==
    /\ \A l \in Range(db.command_resource_links) : l.resource \in ResourceNames(db)
    /\ \A l \in Range(db.command_field_links) :
          l.resource \in ResourceNames(db) /\ HasField(db, l.resource, l.field)
    /\ \A l \in Range(db.command_filter_paths) :
          /\ l.resource \in ResourceNames(db)
          /\ l.target_resource \in ResourceNames(db)
          /\ l.target_field # <<>> => HasField(db, l.target_resource, l.target_field)

\* C5: at the end of every compile run every link row names an existing
\* resource, field and target resource.
C5_LinksResolve == AtCommit => LinksResolve(conn)

\* full_path matches one of the three command grammars.
MatchesGrammar(full_path) ==
    LET tokens == Split(full_path)
        n == Len(tokens)
    IN  /\ n >= 3
        /\ \/ tokens[1] = W.view /\ tokens[n] \in {W.list, W.show}
           \/ tokens[1] = W.do
           \/ tokens[1] = W.summarize /\ tokens[n] = W.create

\* From build_command_resource_links to the ingestion of the first artifact
\* the commands table is the one the links were computed from.
Classified ==
    \/ pc \in {"build_summary_dimensions_metrics", "build_command_summary_links",
               "build_command_filter_paths", "load_llm_cache",
               "build_command_field_links", "executor", "save_llm_cache",
               "apply_mappings"}
    \/ pc = "artifacts" /\ Ingested = {}

\* C6: after build_command_resource_links every command has at most one
\* command_resource_links row, and a command whose path matches none of the
\* grammars has none.
C6_OneLinkPerCommand ==
    Classified =>
        \A c \in Range(conn.commands) :
            /\ Len(SeqWith(conn.command_resource_links, "command_id", c.id)) <= 1
            /\ ~MatchesGrammar(c.full_path) =>
                  SeqWith(conn.command_resource_links, "command_id", c.id) = <<>>

\* The links are computed for a Store that holds a command with a blank
\* path, which has no link, and a command that has its link.
C6_Witness ==
    /\ pc = "build_summary_dimensions_metrics"
    /\ \E c \in Range(conn.commands) :
          /\ ~MatchesGrammar(c.full_path)
          /\ SeqWith(conn.command_resource_links, "command_id", c.id) = <<>>
    /\ \E c \in Range(conn.commands) :
          Len(SeqWith(conn.command_resource_links, "command_id", c.id)) = 1

\* No two rows of command_field_links of a Store share command, relation
\* and flag name.
OneFieldPerFlag(db) ==
    \A i, j \in DOMAIN db.command_field_links :
        LET a == db.command_field_links[i]
            b == db.command_field_links[j]
        IN  (a.command_id = b.command_id /\ a.relation = b.relation
               /\ a.flag_name = b.flag_name) => i = j

\* C7: in command_field_links there is at most one row for a command, a
\* relation and a flag name, deterministic or from the fallback resolver.
C7_OneFieldPerFlag == OneFieldPerFlag(conn) /\ OneFieldPerFlag(disk_db)

\* A command has a link from a deterministic rule and a link from the
\* fallback resolver.
C7_Witness ==
    \E a, b \in Range(conn.command_field_links) :
        a.command_id = b.command_id /\ a.match_kind = "llm" /\ b.match_kind # "llm"

(***************************************************************************)
(* Properties of the fallback resolver's cache.                            *)
(***************************************************************************)
\* build_command_field_links is past its cache lookup.
Resolving == pc \in {"executor", "save_llm_cache", "apply_mappings"}

\* The unmatched groups of the run whose key the cache file held when the
\* run began: an earlier run resolved a group of that key and stored it.
StoredGroups == {g \in UnmatchedGroups(conn) : GroupKey(conn, g) \in DOMAIN args.cache}

\* C8: for a group whose key an earlier call stored in the cache, the
\* resolver is not invoked (no task, no call) and the mapping of the group
\* is the cached one.
C8_CacheHit ==
    Resolving =>
        \A g \in StoredGroups :
            /\ GroupKey(conn, g) \notin resolver_calls
            /\ GroupKey(conn, g) \notin DOMAIN futures
            /\ g \in DOMAIN mappings
            /\ mappings[g] = args.cache[GroupKey(conn, g)]

\* A run resolves a group whose key is in the cache, one of them with an
\* empty mapping stored.
C8_Witness ==
    /\ pc = "apply_mappings"
    /\ \E g \in StoredGroups : args.cache[GroupKey(conn, g)] = <<>>
    /\ \E g \in StoredGroups : args.cache[GroupKey(conn, g)] # <<>>

\* The tasks the as_completed loop has completed.
Completed == {k \in DOMAIN futures : futures[k].state = "yielded"}

ResultOf(k) == IF futures[k].raised THEN <<>> ELSE futures[k].result

\* C9: while tasks are being resolved (where an interrupt may fall), the
\* cache file holds the result of every task completed so far.
C9_SavedAtCompletion ==
    pc = "executor" =>
        \A k \in Completed : k \in DOMAIN cache_file /\ cache_file[k] = ResultOf(k)

C11_NoTaskOutcomeAborts ==
    /\ exit # "error"
    /\ pc = "apply_mappings" => ~FallbackRaises(conn, mappings)

C14_NormalizeIdempotent ==
    normalizations >= 1 => normalize_flag_name(flag_name) = flag_name

\* C15: a flag whose normalized name is not-<field><suffix>, with <field> a
\* field of the resource and <suffix> a range suffix, is matched to <field>
\* with the modifier of the suffix.
C15_NotWithRange ==
    match # NotCalled =>
        \A f \in fields :
            \A i \in DOMAIN RangeSuffixes :
                normalize_flag_name(flag_name) = W.not \o f \o RangeSuffixes[i].suffix =>
                    /\ match.matched
                    /\ match.field = f
                    /\ match.modifier = RangeSuffixes[i].modifier

\* The rules of the matcher, each as the set of the matches it allows for a
\* normalized name n (empty when the rule does not apply).
RuleExact(n) == {Match(f, "exact", "none") : f \in {f \in fields : n = f}}

RuleNot(n) == {Match(f, "negation", "not") : f \in {f \in fields : n = W.not \o f}}

RuleIs(n) == {Match(f, "presence", "is") : f \in {f \in fields : n = W.is \o f}}

RuleRange(n) ==
    UNION {{Match(f, "range", RangeSuffixes[i].modifier) :
               f \in {f \in fields : n = f \o RangeSuffixes[i].suffix}} :
           i \in DOMAIN RangeSuffixes}

RuleRangeStripId(n) ==
    UNION {{Match(f, "range_strip_id", RangeSuffixes[i].modifier) :
               f \in {f \in fields : \/ n = f \o W.id \o RangeSuffixes[i].suffix
                                     \/ n = f \o W.ids \o RangeSuffixes[i].suffix}} :
           i \in DOMAIN RangeSuffixes}

RuleStripId(n) ==
    {Match(f, "strip_id", "none") : f \in {f \in fields : n = f \o W.id \/ n = f \o W.ids}}

\* The matches of the first rule of the list that applies, no match if none does.
RECURSIVE FirstRule(_)
FirstRule(rules) ==
    IF rules = <<>> THEN {NoMatch}
    ELSE IF Head(rules) # {} THEN Head(rules)
    ELSE FirstRule(Tail(rules))

C19_PathsOnlyForUnmatched ==
    \A p \in Range(disk_db.command_filter_paths) :
        /\ \E l \in Range(disk_db.command_resource_links) :
              /\ l.command_id = p.command_id
              /\ l.command_kind = "view"
              /\ l.verb = W.list
        /\ ~\E fl \in Range(disk_db.command_field_links) :
              /\ fl.command_id = p.command_id
              /\ fl.flag_name = p.flag_name

\* The relationship graph of a Store, read without the search of the code:
\* the sequences of n relation names that lead from r to t.
RECURSIVE IsWalk(_, _, _, _)
IsWalk(db, r, t, rels) ==
    IF rels = <<>> THEN r = t
    ELSE \E e \in Range(db.resource_field_targets) :
            /\ e.resource = r
            /\ e.field = Head(rels)
            /\ IsWalk(db, e.target_resource, t, Tail(rels))

Walks(db, r, t, n) ==
    {rels \in [1..n -> {e.field : e \in Range(db.resource_field_targets)}] :
        IsWalk(db, r, t, rels)}

\* The hop distance from r to t, max_hops + 1 when t is farther or not reachable.
Distance(db, r, t) ==
    IF \E n \in 0..max_hops : Walks(db, r, t, n) # {}
    THEN CHOOSE n \in 0..max_hops :
            /\ Walks(db, r, t, n) # {}
            /\ \A k \in 0..(n - 1) : Walks(db, r, t, k) = {}
    ELSE max_hops + 1

\* The flags build_command_filter_paths has just looked at: those of the
\* commands linked as view ... list that have no command_field_links row,
\* with the resource of the command.
ListFlagsWithoutLink ==
    {x \in Range(conn.flags) \X ResourceNames(conn) :
        /\ \E l \in Range(conn.command_resource_links) :
              /\ l.command_id = x[1].command_id
              /\ l.resource = x[2]
              /\ l.command_kind = "view"
              /\ l.verb = W.list
        /\ ~\E fl \in Range(conn.command_field_links) :
              /\ fl.command_id = x[1].command_id
              /\ fl.flag_name = x[1].name}

\* The resources other than r, within max_hops of r, that the base of the
\* flag names, itself or by its plural; none when the base names a
\* relationship of r.
NamedResources(flag, r) ==
    LET base == FilterBase(flag)
    IN  IF \E e \in Range(conn.resource_field_targets) : e.resource = r /\ e.field = base
        THEN {}
        ELSE {t \in {base, pluralize_resource_name(base)} \cap ResourceNames(conn) :
                 t # r /\ Distance(conn, r, t) <= max_hops}

\* command_filter_paths has a row of the flag with target t, the distance
\* from r to t as its hop count and the relation names of a walk of that
\* length from r to t as its path.
HasPathRow(f, r, t) ==
    \E p \in Range(conn.command_filter_paths) :
        /\ p.command_id = f.command_id
        /\ p.flag_name = f.name
        /\ p.target_resource = t
        /\ p.hop_count = Distance(conn, r, t)
        /\ \E rels \in Walks(conn, r, t, Distance(conn, r, t)) : p.path = Join(rels, DOT)

CountColumns(row) ==
    [relationship |-> row.relationship_count,
     summary |-> row.summary_count,
     filter_path |-> row.filter_path_count,
     shared_command_field |-> row.shared_command_field_count,
     shared_summary_dimension |-> row.shared_summary_dimension_count,
     shared_summary_metric |-> row.shared_summary_metric_count,
     shared_filter_target |-> row.shared_filter_target_count]

\* C17: the score of every row is the sum over the component kinds of the
\* count of the kind, capped at 10, times the weight of the kind (in tenths:
\* 30, 25, 15, 10, 8, 8, 5); a row with 3 shared command fields, one
\* relationship and nothing else scores 6.0.
C17_ScoreIsWeightedSum ==
    \A row \in scores :
        LET kinds == SetToSeq(DOMAIN weights)
        IN  /\ row.score = Sum([i \in DOMAIN kinds |->
                                   capped_count(CountColumns(row)[kinds[i]]) * weights[kinds[i]]])
            /\ CountColumns(row) = [k \in DOMAIN weights |->
                                       IF k = "shared_command_field" THEN 3
                                       ELSE IF k = "relationship" THEN 1 ELSE 0]
                  => row.score = 60

\* C18: every per-kind count column of every row is at most 10.
C18_CountAtMostTen ==
    \A row \in scores :
        \A k \in DOMAIN weights : CountColumns(row)[k] <= count_cap

\* C21: a flag whose normalized name is <x><suffix>, with <suffix> a range
\* suffix, <x> not a field of the resource and <x>-id or <x>-ids a field, is
\* matched to that -id / -ids field with kind range_strip_id and the
\* modifier of the suffix.
C21_RangeMatchesIdField ==
    match # NotCalled =>
        \A i \in DOMAIN RangeSuffixes :
            LET n == normalize_flag_name(flag_name)
                suffix == RangeSuffixes[i].suffix
                x == DropLast(n, Len(suffix))
            IN  (/\ EndsWith(n, suffix)
                 /\ x \notin fields
                 /\ (x \o W.id \in fields \/ x \o W.ids \in fields)) =>
                    /\ match.matched
                    /\ match.field \in {x \o W.id, x \o W.ids} \cap fields
                    /\ match.match_kind = "range_strip_id"
                    /\ match.modifier = RangeSuffixes[i].modifier

(***************************************************************************)
(* The relation of a field link.                                           *)
(***************************************************************************)
\* The relation the classification (command_kind, verb) stands for.
ClassRelation(command_kind, verb) ==
    CASE command_kind = "view" /\ verb = W.list -> "filters_by"
      [] command_kind = "view" /\ verb = W.show -> "selects_field"
      [] command_kind = "do" /\ verb \in {W.create, W.update} -> "sets_field"
      [] command_kind = "summarize" /\ verb = W.create -> "summary_param"
      [] OTHER -> "none"

\* The classifications of a command in a database.
LinksOf(db, command_id) ==
    {l \in Range(db.command_resource_links) : l.command_id = command_id}

\* The rows of command_field_links agree with the classifications of db.
RelationsAgree(db) ==
    /\ \A row \in Range(db.command_field_links) :
          /\ LinksOf(db, row.command_id) # {}
          /\ \A l \in LinksOf(db, row.command_id) :
                /\ ClassRelation(l.command_kind, l.verb) # "none"
                /\ row.relation = ClassRelation(l.command_kind, l.verb)
    /\ \A l \in Range(db.command_resource_links) :
          (l.command_kind = "do" /\ l.verb \notin {W.create, W.update}) =>
              \A row \in Range(db.command_field_links) : row.command_id # l.command_id

\* The flags of the commands of db classified on the resource, with the
\* relation, of a group.
FlagsOfGroup(db, group) ==
    {f.name : f \in {f \in Range(db.flags) :
        \E l \in LinksOf(db, f.command_id) :
            /\ l.resource = group.resource
            /\ ClassRelation(l.command_kind, l.verb) = group.relation}}

\* C22: every command_field_links row has the relation of its command's
\* classification (filters_by for view/list, selects_field for view/show,
\* sets_field for do/create and do/update, summary_param for
\* summarize/create), a do command with another verb has no row, and every
\* flag of a task of the fallback resolver is a flag of a command that has
\* the relation of the task's group.
C22_RelationByClassification ==
    /\ RelationsAgree(disk_db)
    /\ pc \in {"executor", "save_llm_cache", "apply_mappings", "artifacts"} =>
           RelationsAgree(conn)
    /\ \A k \in DOMAIN futures :
          /\ futures[k].group.relation # "none"
          /\ \A f \in k.flags : f.name \in FlagsOfGroup(conn, futures[k].group)

\* A committed database with a command of each classification, the flag
\* --name of each but the do/delete command linked, and a flag linked by
\* the fallback resolver.
C22_Witness ==
    /\ pc = "artifacts"
    /\ \E row \in Range(conn.command_field_links) : row.match_kind = "llm"
    /\ {ClassRelation(l.command_kind, l.verb) : l \in Range(conn.command_resource_links)}
           = {"filters_by", "selects_field", "sets_field", "summary_param", "none"}
    /\ {row.relation : row \in Range(conn.command_field_links)}
           = {"filters_by", "selects_field", "sets_field", "summary_param"}
    /\ \E f \in Range(conn.flags) : f.command_id = "c6" /\ f.name = fl_force

(***************************************************************************)
(* Filter paths: relationships, tied candidates, the search.               *)
(***************************************************************************)
\* The targets of the relationship fields of r named rel.
RelTargets(db, r, rel) ==
    {e.target_resource : e \in {e \in Range(db.resource_field_targets) :
                                   e.resource = r /\ e.field = rel}}

\* C23: a list flag without a field link whose base names a relationship of
\* its resource has, for every target of every relationship field of that
\* name, a row with that target, hop count 1, match kind rel and the
\* relation name as path.
C23_RowPerTarget ==
    pc = "load_llm_cache" =>
        \A x \in ListFlagsWithoutLink :
            \A t \in RelTargets(conn, x[2], FilterBase(x[1].name)) :
                \E p \in Range(conn.command_filter_paths) :
                    /\ p.command_id = x[1].command_id
                    /\ p.flag_name = x[1].name
                    /\ p.target_resource = t
                    /\ p.hop_count = 1
                    /\ p.match_kind = "rel"
                    /\ p.path = FilterBase(x[1].name)

\* C24: of the resources the base of a list flag without a field link names
\* (itself or by its plural) within max_hops, every one at the least hop
\* distance has its own rel_resource row with that hop count, and none at a
\* greater distance has a row.
C24_EveryTiedCandidate ==
    pc = "load_llm_cache" =>
        \A x \in ListFlagsWithoutLink :
            LET named == NamedResources(x[1].name, x[2])
                RowsTo(t) == {p \in Range(conn.command_filter_paths) :
                                 /\ p.command_id = x[1].command_id
                                 /\ p.flag_name = x[1].name
                                 /\ p.target_resource = t}
            IN  \A t \in named :
                    IF \A u \in named : Distance(conn, x[2], t) <= Distance(conn, x[2], u)
                    THEN \E p \in RowsTo(t) :
                            /\ p.match_kind = "rel_resource"
                            /\ p.hop_count = Distance(conn, x[2], t)
                    ELSE RowsTo(t) = {}

\* shortest_paths has returned.
SearchReturned == paths # <<>> /\ queue = <<>>

\* C25: in a call of shortest_paths no resource is put in the frontier more
\* than once, no path has more than max_hops = 3 relations, the call
\* returns, and what it returns is the dict the compiler's stages get.
C25_SearchTerminates ==
    /\ [](\A x \in DOMAIN pushes : pushes[x] <= 1)
    /\ [](max_hops = 3 /\ \A x \in DOMAIN paths : Len(paths[x]) <= max_hops)
    /\ [](SearchReturned => paths = shortest_paths(adjacency, start, max_hops))
    /\ <>SearchReturned

\* The search has returned on the graph with every edge (the chain, the
\* self-loops, the cycles) from the first resource: the resource of the
\* chain three hops away has a path of three relations, and a resource
\* farther than that has none.
C25_Witness ==
    /\ SearchReturned
    /\ Range(adjacency) = SearchEdges \ {Edge(1, 3)}
    /\ start = NodeName(1)
    /\ Len(paths[NodeName(4)]) = 3
    /\ NodeName(MaxResources) \notin DOMAIN paths

(***************************************************************************)
(* Failed fallback tasks.                                                  *)
(***************************************************************************)
\* The unmatched groups of the run whose key the cache file held with an
\* empty mapping when the run began.
FailedGroups == {g \in StoredGroups : args.cache[GroupKey(conn, g)] = <<>>}

\* build_command_field_links has returned and no artifact file was read yet.
FieldLinksBuilt == pc = "artifacts" /\ artifact_paths = args.artifacts

\* C26: once a run has saved its cache, the file holds the empty mapping of
\* every task of the run that failed; a run that finds the key of a group
\* in the file with an empty mapping does not submit a task or call the
\* resolver for the group, and leaves every flag of the group without a
\* link; and an empty mapping in the file stays there.
C26_FailureIsCached ==
    /\ [](pc = "apply_mappings" =>
             \A k \in DOMAIN futures :
                 ResultOf(k) = <<>> => (k \in DOMAIN cache_file /\ cache_file[k] = <<>>))
    /\ [](Resolving =>
             \A g \in FailedGroups :
                 /\ GroupKey(conn, g) \notin resolver_calls
                 /\ GroupKey(conn, g) \notin DOMAIN futures
                 /\ mappings[g] = <<>>)
    /\ [](FieldLinksBuilt =>
             \A g \in FailedGroups :
                 \A e \in Range(UnmatchedByCommand(conn)) :
                     Group(e.resource, e.relation) = g =>
                         \A row \in Range(conn.command_field_links) :
                             ~(/\ row.command_id = e.command_id
                               /\ row.flag_name = e.flag_name
                               /\ row.relation = e.relation))
    /\ [][\A k \in DOMAIN cache_file :
             cache_file[k] = <<>> => (k \in DOMAIN cache_file' /\ cache_file'[k] = <<>>)]_vars

\* A run after the one in which the task of a group raised: the group is
\* answered from the cache, the resolver is not called in the run, and no
\* flag has a link from the fallback.
C26_Witness ==
    /\ FieldLinksBuilt
    /\ run = 3
    /\ FailedGroups # {}
    /\ FailedGroups = UnmatchedGroups(conn)
    /\ \A row \in Range(conn.command_field_links) : row.match_kind # "llm"

\* The worker of slot w holds a claimed batch.
Holds(w) == workers[w].pc \in {"load", "agent", "validate"}

\* C27: of the workers that call claim_batch at the same time, at most one
\* claims a given pending batch file (the rename moves it from pending to
\* processing for that worker alone); a worker drops a candidate only when
\* its rename failed, and then goes on with the next one; and claim_batch
\* returns no batch only when no candidate it listed is left to try.
C27_ClaimedByOne ==
    /\ [](\A v, w \in Slots :
             v # w /\ Holds(v) /\ Holds(w) => workers[v].batch # workers[w].batch)
    /\ [][\A w \in Slots :
             workers[w].pc = "rename" /\ workers'[w] # workers[w] =>
                LET candidate == Head(workers[w].candidates)
                IN  \/ /\ workers[w].candidates = <<>>
                       /\ workers'[w].pc = "exited"
                    \/ /\ workers[w].candidates # <<>>
                       /\ candidate \in pending
                       /\ workers'[w].pc = "load"
                       /\ workers'[w].batch = candidate
                       /\ pending' = pending \ {candidate}
                       /\ candidate \in processing'
                       /\ \A v \in Slots \ {w} : workers'[v].batch # candidate
                    \/ /\ workers[w].candidates # <<>>
                       /\ candidate \notin pending
                       /\ workers'[w].pc = "rename"
                       /\ workers'[w].candidates = Tail(workers[w].candidates)]_vars

\* Two workers listed both batches; one lost the race for the first and
\* claimed the second.
C27_Witness ==
    /\ workers[1].pc = "load"
    /\ workers[1].batch = BatchFile("x", <<>>)
    /\ workers[2].pc = "load"
    /\ workers[2].batch = BatchFile("y", <<>>)
    /\ workers[2].listed = <<BatchFile("x", <<>>), BatchFile("y", <<>>)>>
    /\ workers[1].listed = workers[2].listed

\* The worker of slot w ends process_batch in this step.
FinishesBatch(w) ==
    /\ Holds(w)
    /\ ~Holds(w)'

\* C28: when a worker finishes process_batch on a batch it claimed, either
\* the batch file is gone from the queue and every target artifact exists
\* and is valid, or the batch file is back in pending and no target
\* artifact exists.
C28_SuccessOrFailure ==
    [][\A w \in Slots :
          FinishesBatch(w) =>
             LET batch == workers[w].batch
                 targets == Targets(workers[w].program, batch.noun)
             IN  \/ /\ batch \notin pending' \cup processing'
                    /\ \A t \in targets :
                          t \in DOMAIN artifacts' /\ artifacts'[t] = "valid"
                 \/ /\ batch \in pending'
                    /\ batch \notin processing'
                    /\ \A t \in targets : t \notin DOMAIN artifacts']_vars

\* C29: when recover has completed and no worker runs, processing holds
\* no batch file, every file that was in pending is still there, the
\* number of batch files is what it was, and no artifact of a command of a
\* recovered batch exists; each batch is moved to pending under its own
\* name, or under a _recovered_<n> name that no file of pending has when
\* its own name is taken.
C29_Recovered ==
    /\ [](recover.pc = "done" /\ (\A w \in Slots : ~IsRunning(w)) =>
             /\ processing = {}
             /\ recover.was_pending \subseteq pending
             /\ Cardinality(pending) =
                   Cardinality(recover.was_pending) + Cardinality(recover.was_processing)
             /\ \A batch \in recover.was_processing :
                   \A t \in Targets("worker", batch.noun) : t \notin DOMAIN artifacts)
    /\ [][recover.pc = "batches" /\ recover.todo # <<>> =>
             LET batch == Head(recover.todo)
             IN  \E destination \in pending' \ pending :
                    /\ pending' = pending \cup {destination}
                    /\ processing' = processing \ {batch}
                    /\ IF batch \in pending
                       THEN \E index \in 1..(Cardinality(pending) + 1) :
                               destination = Recovered(batch, index)
                       ELSE destination = batch]_vars

\* recover has moved three batches; the name of one was taken in pending,
\* and so was its first recovered name.
C29_Witness ==
    /\ recover.pc = "done"
    /\ recover.was_pending = {BatchFile("x", <<>>), BatchFile("x", <<1>>)}
    /\ recover.was_processing = QueueFiles
    /\ BatchFile("x", <<2>>) \in pending
    /\ BatchFile("x", <<1, 1>>) \in pending
    /\ artifacts = <<>>

\* C30: in loop mode the swarm exits only when pending is empty and no
\* worker is running, and it eventually exits when every worker it spawned
\* eventually exits, also when a batch fails every time it is processed.
C30_SwarmExits ==
    /\ [](swarm.pc = "exited" =>
             pending = {} /\ \A w \in Slots : ~IsRunning(w))
    /\ <>(swarm.pc = "exited")

====
